---------------------------- MODULE Spec2Model ----------------------------
(***************************************************************************)
(* A model of the SNMP connection plugin (connection_plugins/snmp.py):     *)
(* the value classes and their JSON-RPC codec, the broker (_Server) with   *)
(* its get/set/walk handlers, the session cache and the event loop of      *)
(* exec_command.                                                           *)
(*                                                                         *)
(* Python objects are records with a field cls (the Python class) and a    *)
(* field value.  A Python str is a sequence of byte codes, a Python int    *)
(* is its canonical decimal text (so it has no width), a raised exception  *)
(* is a record of class "raise".                                           *)
(***************************************************************************)
EXTENDS Integers, Sequences, FiniteSets, TLC

VARIABLES
    \* --- codec (serialize / unserialize of one value) ---
    cval,       \* the value handed to serialize
    cwire,      \* the JSON tree serialize produced (or the exception)
    cout,       \* what unserialize returned (or the exception)
    cpc,        \* "start" | "serialized" | "done"
    \* --- one walk against one device ---
    wmib,       \* the device's table: a set of <<OID, native value>>
    wroot,      \* the root the worker asked to walk (text)
    wpc,        \* "start" | "await" | "done"
    wreq,       \* the bulk read the device has not answered yet (a sequence of 0 or 1)
    wsent,      \* the lines the broker transmitted to the worker
    wstored,    \* the OIDs whose var-binds the walk stored
    wescaped,   \* the exceptions that escaped the walk's handlers
    wempty,     \* whether the device answered a bulk read with no var-bind
    wrounds,    \* the bulk round trips the walk has made
    \* --- one get against one device ---
    gnames,     \* the OIDs the worker asked for (texts, in call order)
    gpc,        \* "start" | "await" | "done"
    greq,       \* the Get the device has not answered yet (a sequence of 0 or 1)
    gsent,      \* the lines the broker transmitted to the worker
    gescaped,   \* the exceptions that escaped the get's handlers
    \* --- the control-plane process: exec_command, its workers, the device ---
    cur,        \* the number of exec_command calls started; the last one's worker
    epc,        \* per worker, where its exec_command is: "new" | "loop" | "wait" |
                \* "returned" | "raised" (an exception left it) | "disturbed" (the
                \* exception that left it came from the callback of a request
                \* of an earlier worker that is gone)
    sockMap,    \* the dispatchers registered in the session's socket map
    fds,        \* the descriptors open in the control-plane process
    finished,   \* the dispatchers whose _finished is set
    inflight,   \* the device exchanges issued and not completed, each with the
                \* worker and the id of the request line it was issued for
    escaped,    \* per broker, the exception that escaped a handler of it during
                \* its worker's current call, if any
    delivered,  \* the responses written to a worker's pipe, each with the request
                \* whose exchange produced it
    proc,       \* per worker, its process: "none" | "running" | "exited"
    wfd,        \* per worker, its output streams it holds open
    client,     \* per worker, its SnmpClient: "idle" | "waiting", or "bypassed" when
                \* the worker writes to the pipe itself
    ncalls,     \* the calls the workers' clients have made, in all
    ccall,      \* per worker, the call in progress or last made
    cret,       \* per worker, what the last call returned or raised
    erred,      \* per worker, whether its last completed call returned a device failure
    issued,     \* per worker, the device requests issued for its current call
    pipeTo,     \* per worker, the lines in the pipe to its broker
    pipeFrom,   \* per worker, the lines in the pipe from its broker
    \* --- the session cache of one control-plane process ---
    config,     \* the SNMP_* settings read when the plugin module is loaded
    cache,      \* _cache: host:port key -> session
    made,       \* the sessions created, in order
    got,        \* what the lookups returned, in order, each with the key and the runner
    everCached, \* every <<key, session>> that was ever in _cache
    \* --- one conversion applied to one input ---
    vfn,        \* the function applied
    varg,       \* its argument
    vout,       \* what it returned (or the exception)
    vpc,        \* "start" | "done" ("idle" when no conversion is modelled)
    \* --- the loop of one exec_command ---
    lpc,        \* "test" (the while condition) | "poll" | "tick" | "wait" (p.wait) |
                \* "raised" (an exception left exec_command)
    lreadable,  \* the output dispatchers whose _finished is not set
    lopen,      \* the output streams the worker holds open
    lpending,   \* the exchanges the device engine has in flight
    lready,     \* the descriptors the last poll found ready
    lpolls,     \* the polls made
    lticks      \* the timer ticks made

codecVars == <<cval, cwire, cout, cpc>>
walkVars == <<wmib, wroot, wpc, wreq, wsent, wstored, wescaped, wempty, wrounds>>
getVars == <<gnames, gpc, greq, gsent, gescaped>>
planeVars == <<cur, epc, sockMap, fds, finished, inflight, escaped, delivered>>
workerVars == <<proc, wfd, client, ncalls, ccall, cret, erred, issued, pipeTo, pipeFrom>>
execVars == <<planeVars, workerVars>>
cacheVars == <<config, cache, made, got, everCached>>
convVars == <<vfn, varg, vout, vpc>>
loopVars == <<lpc, lreadable, lopen, lpending, lready, lpolls, lticks>>
vars == <<codecVars, walkVars, getVars, execVars, cacheVars, convVars, loopVars>>
\* what the actions of one specification leave alone
notCodecVars == <<walkVars, getVars, execVars, cacheVars, convVars, loopVars>>
notWalkVars == <<codecVars, getVars, execVars, cacheVars, convVars, loopVars>>
notGetVars == <<codecVars, walkVars, execVars, cacheVars, convVars, loopVars>>
notExecVars == <<codecVars, walkVars, getVars, cacheVars, convVars, loopVars>>
notCacheVars == <<codecVars, walkVars, getVars, execVars, convVars, loopVars>>
notConvVars == <<codecVars, walkVars, getVars, execVars, cacheVars, loopVars>>
notLoopVars == <<codecVars, walkVars, getVars, execVars, cacheVars, convVars>>

-----------------------------------------------------------------------------
(* Python primitives *)

PyNone == [cls |-> "NoneType", value |-> <<>>]
PyStr(s) == [cls |-> "str", value |-> s]
PyInt(d) == [cls |-> "int", value |-> d]
\* a str whose bytes the model does not spell out (a message text, a method name)
PyText(t) == [cls |-> "text", value |-> t]
PyList(q) == [cls |-> "list", value |-> q]
PyDict(f) == [cls |-> "dict", value |-> f]
\* dict(__jsonclass__=[name, data])
JsonClass(name, data) == [cls |-> "jsonclass", name |-> name, data |-> data]
\* a raised exception: its class, its message text and the name the text ends with
Raise(exc, msg, arg) == [cls |-> "raise", value |-> <<exc, msg, arg>>]
IsRaise(v) == v.cls = "raise"

\* character codes
ChDot == 46
ChMinus == 45
ChZero == 48
ChNine == 57

IsDigits(s) == Len(s) > 0 /\ \A i \in 1..Len(s) : s[i] \in ChZero..ChNine

RECURSIVE StripZeros(_)
StripZeros(s) ==
    IF Len(s) > 1 /\ s[1] = ChZero THEN StripZeros(Tail(s)) ELSE s

\* int(text): the canonical decimal text of the number, or ValueError
ParseInt(s) ==
    IF IsDigits(s) THEN PyInt(StripZeros(s))
    ELSE IF Len(s) > 1 /\ s[1] = ChMinus /\ IsDigits(Tail(s))
         THEN LET d == StripZeros(Tail(s))
              IN  IF d = <<ChZero>> THEN PyInt(d) ELSE PyInt(<<ChMinus>> \o d)
    ELSE Raise("ValueError", "invalid literal for int()", "")

\* the decimal text of a natural number
RECURSIVE NatToStr(_)
NatToStr(n) ==
    IF n < 10 THEN <<ChZero + n>> ELSE NatToStr(n \div 10) \o <<ChZero + (n % 10)>>

\* str.split(sep)
RECURSIVE Split(_, _)
Split(s, sep) ==
    IF \E i \in 1..Len(s) : s[i] = sep
    THEN LET p == CHOOSE i \in 1..Len(s) : s[i] = sep /\ \A j \in 1..(i-1) : s[j] # sep
         IN  <<SubSeq(s, 1, p - 1)>> \o Split(SubSeq(s, p + 1, Len(s)), sep)
    ELSE <<s>>

\* sep.join(parts)
RECURSIVE Join(_, _)
Join(parts, sep) ==
    IF Len(parts) = 0 THEN <<>>
    ELSE IF Len(parts) = 1 THEN parts[1]
    ELSE parts[1] \o <<sep>> \o Join(Tail(parts), sep)

-----------------------------------------------------------------------------
(* base64, as used for the payload of an OctetString *)

B64Char(i) ==
    IF i < 26 THEN 65 + i
    ELSE IF i < 52 THEN 97 + (i - 26)
    ELSE IF i < 62 THEN 48 + (i - 52)
    ELSE IF i = 62 THEN 43 ELSE 47

B64Index(c) ==
    IF c \in 65..90 THEN c - 65
    ELSE IF c \in 97..122 THEN c - 97 + 26
    ELSE IF c \in 48..57 THEN c - 48 + 52
    ELSE IF c = 43 THEN 62
    ELSE IF c = 47 THEN 63 ELSE -1

ChPad == 61

RECURSIVE B64Encode(_)
B64Encode(b) ==
    IF Len(b) = 0 THEN <<>>
    ELSE IF Len(b) = 1
         THEN <<B64Char(b[1] \div 4), B64Char((b[1] % 4) * 16), ChPad, ChPad>>
    ELSE IF Len(b) = 2
         THEN <<B64Char(b[1] \div 4),
                B64Char((b[1] % 4) * 16 + b[2] \div 16),
                B64Char((b[2] % 16) * 4), ChPad>>
    ELSE <<B64Char(b[1] \div 4),
           B64Char((b[1] % 4) * 16 + b[2] \div 16),
           B64Char((b[2] % 16) * 4 + b[3] \div 64),
           B64Char(b[3] % 64)>> \o B64Encode(SubSeq(b, 4, Len(b)))

\* the bytes of well-padded base64 text; None when the text is not base64
RECURSIVE B64DecodeQuads(_)
B64DecodeQuads(s) ==
    IF Len(s) = 0 THEN <<>>
    ELSE LET a == B64Index(s[1])
             b == B64Index(s[2])
             c == B64Index(s[3])
             d == B64Index(s[4])
             rest == SubSeq(s, 5, Len(s))
         IN  IF s[3] = ChPad THEN <<a * 4 + b \div 16>>
             ELSE IF s[4] = ChPad THEN <<a * 4 + b \div 16, (b % 16) * 16 + c \div 4>>
             ELSE <<a * 4 + b \div 16, (b % 16) * 16 + c \div 4, (c % 4) * 64 + d>>
                  \o B64DecodeQuads(rest)

B64Valid(s) ==
    /\ Len(s) % 4 = 0
    /\ \A i \in 1..Len(s) :
        \/ B64Index(s[i]) >= 0
        \/ s[i] = ChPad /\ i > Len(s) - 2 /\ (i = Len(s) \/ s[Len(s)] = ChPad)

B64Decode(p) ==
    IF p.cls = "str" /\ B64Valid(p.value) THEN PyStr(B64DecodeQuads(p.value))
    ELSE Raise("TypeError", "Incorrect padding", "")

-----------------------------------------------------------------------------
(* The value classes: SnmpValue and its subclasses *)

SnmpValueClasses ==
    {"OctetString", "ObjectIdentifier", "Integer32", "Counter32", "IpAddress",
     "Gauge32", "TimeTicks", "Opaque", "Counter64"}

IsSnmpValue(v) == v.cls \in SnmpValueClasses

\* str(x)
RECURSIVE PyStrOf(_)
PyStrOf(x) ==
    IF x.cls \in {"str", "text"} THEN x
    ELSE IF x.cls = "int" THEN PyStr(x.value)
    ELSE IF x.cls = "NoneType" THEN PyStr(<<78, 111, 110, 101>>)
    ELSE IF IsSnmpValue(x) THEN PyStrOf(x.value)       \* SnmpValue.__str__
    ELSE Raise("TypeError", "str()", x.cls)

\* int(x) and long(x)
PyIntOf(x) ==
    IF x.cls = "int" THEN x
    ELSE IF x.cls = "str" THEN ParseInt(x.value)
    ELSE IF x.cls \in {"Integer32", "Counter32"} THEN x.value   \* __int__, __long__
    ELSE Raise("TypeError", "int() argument must be a string or a number", x.cls)

\* SnmpValue.__init__
SnmpValue(cls, value) == [cls |-> cls, value |-> value]

OctetString(value) ==
    LET s == PyStrOf(value) IN IF IsRaise(s) THEN s ELSE SnmpValue("OctetString", s)

\* the subidentifiers of a dotted string, each as str(int(subid))
SubIds(s) == LET parts == Split(s, ChDot) IN [i \in 1..Len(parts) |-> ParseInt(parts[i])]

\* ObjectIdentifier.__init__ that keeps the text it is given
ObjectIdentifierVerbatim(value) ==
    LET s == PyStrOf(value)
    IN  IF IsRaise(s) THEN s
        ELSE IF \E i \in 1..Len(SubIds(s.value)) : IsRaise(SubIds(s.value)[i])
             THEN Raise("ValueError", "invalid literal for int()", "")
        ELSE SnmpValue("ObjectIdentifier", s)

ObjectIdentifier(value) ==
    LET s == PyStrOf(value)
    IN  IF IsRaise(s) THEN s
        ELSE LET subids == SubIds(s.value)
             IN  IF \E i \in 1..Len(subids) : IsRaise(subids[i])
                 THEN Raise("ValueError", "invalid literal for int()", "")
                 ELSE SnmpValue("ObjectIdentifier",
                          PyStr(Join([i \in 1..Len(subids) |-> subids[i].value], ChDot)))

Integer32(value) ==
    LET n == PyIntOf(value) IN IF IsRaise(n) THEN n ELSE SnmpValue("Integer32", n)

Counter32(value) ==
    LET n == PyIntOf(value) IN IF IsRaise(n) THEN n ELSE SnmpValue("Counter32", n)

IpAddress(value) == SnmpValue("IpAddress", value)
Gauge32(value) == SnmpValue("Gauge32", value)
TimeTicks(value) == SnmpValue("TimeTicks", value)
Opaque(value) == SnmpValue("Opaque", value)
Counter64(value) == SnmpValue("Counter64", value)

\* cls(value), for the name of a value class
Construct(cls, value) ==
    IF cls = "OctetString" THEN OctetString(value)
    ELSE IF cls = "ObjectIdentifier" THEN ObjectIdentifier(value)
    ELSE IF cls = "Integer32" THEN Integer32(value)
    ELSE IF cls = "Counter32" THEN Counter32(value)
    ELSE SnmpValue(cls, value)

-----------------------------------------------------------------------------
(* _JsonRpcPeer: serialize / unserialize and their hooks.  json.dumps and   *)
(* json.loads are modelled on JSON trees: numbers, strings, null, lists     *)
(* and dicts are kept, every other object goes through the default hook,    *)
(* and every decoded dict goes through the object hook, innermost first.    *)

UnsupportedType(name) == Raise("ValueError", "Unsupported object type: %s", name)

RECURSIVE DefaultHook(_)
DefaultHook(o) ==
    IF o.cls = "OctetString" THEN JsonClass("OctetString", PyStr(B64Encode(o.value.value)))
    ELSE IF o.cls = "Opaque"
         THEN LET inner == DefaultHook(o.value)
              IN  IF IsRaise(inner) THEN inner ELSE JsonClass("Opaque", inner)
    ELSE IF o.cls = "Integer32" THEN JsonClass("Integer32", o.value)
    ELSE IF IsSnmpValue(o) THEN JsonClass(o.cls, o.value)
    ELSE UnsupportedType(o.cls)

RECURSIVE JsonDumps(_)
JsonDumps(v) ==
    IF v.cls \in {"NoneType", "int", "str", "text"} THEN v
    ELSE IF v.cls = "list"
         THEN LET q == [i \in 1..Len(v.value) |-> JsonDumps(v.value[i])]
              IN  IF \E i \in 1..Len(q) : IsRaise(q[i])
                  THEN q[CHOOSE i \in 1..Len(q) : IsRaise(q[i]) /\ \A j \in 1..(i-1) : ~IsRaise(q[j])]
                  ELSE PyList(q)
    ELSE IF v.cls = "dict"
         THEN LET f == [k \in DOMAIN v.value |-> JsonDumps(v.value[k])]
              IN  IF \E k \in DOMAIN f : IsRaise(f[k])
                  THEN f[CHOOSE k \in DOMAIN f : IsRaise(f[k])]
                  ELSE PyDict(f)
    ELSE IF v.cls = "jsonclass"
         THEN LET d == JsonDumps(v.data)
              IN  IF IsRaise(d) THEN d ELSE JsonClass(v.name, d)
    ELSE LET h == DefaultHook(v) IN IF IsRaise(h) THEN h ELSE JsonDumps(h)

\* _object_hook that returns the payload of a tag it does not know
ObjectHookLenient(o) ==
    IF o.cls = "jsonclass" /\ o.name \notin SnmpValueClasses THEN o.data
    ELSE IF o.cls = "jsonclass" /\ o.name = "OctetString"
         THEN LET b == B64Decode(o.data) IN IF IsRaise(b) THEN b ELSE OctetString(b)
    ELSE IF o.cls = "jsonclass" /\ o.name = "ObjectIdentifier" THEN ObjectIdentifier(o.data)
    ELSE IF o.cls = "jsonclass" /\ o.name = "Integer32" THEN Integer32(o.data)
    ELSE IF o.cls = "jsonclass" /\ o.name = "Counter32" THEN UnsupportedType(o.name)
    ELSE IF o.cls = "jsonclass" THEN SnmpValue(o.name, o.data)
    ELSE o

ObjectHook(o) ==
    IF o.cls \notin {"dict", "jsonclass"} THEN o
    ELSE IF o.cls = "jsonclass"
    THEN LET constructor == o.name
             data == o.data
         IN  IF constructor = "OctetString"
             THEN LET b == B64Decode(data) IN IF IsRaise(b) THEN b ELSE OctetString(b)
             ELSE IF constructor = "ObjectIdentifier" THEN ObjectIdentifier(data)
             ELSE IF constructor = "Integer32" THEN Integer32(data)
             ELSE IF constructor = "IpAddress" THEN IpAddress(data)
             ELSE IF constructor = "Gauge32" THEN Gauge32(data)
             ELSE IF constructor = "TimeTicks" THEN TimeTicks(data)
             ELSE IF constructor = "Opaque" THEN Opaque(data)   \* _object_hook(data) = data: already decoded
             ELSE IF constructor = "Counter64" THEN Counter64(data)
             ELSE UnsupportedType(constructor)
    ELSE o

RECURSIVE JsonLoads(_)
JsonLoads(j) ==
    IF j.cls = "list"
    THEN LET q == [i \in 1..Len(j.value) |-> JsonLoads(j.value[i])]
         IN  IF \E i \in 1..Len(q) : IsRaise(q[i])
             THEN q[CHOOSE i \in 1..Len(q) : IsRaise(q[i]) /\ \A k \in 1..(i-1) : ~IsRaise(q[k])]
             ELSE PyList(q)
    ELSE IF j.cls = "dict"
         THEN LET f == [k \in DOMAIN j.value |-> JsonLoads(j.value[k])]
              IN  IF \E k \in DOMAIN f : IsRaise(f[k])
                  THEN f[CHOOSE k \in DOMAIN f : IsRaise(f[k])]
                  ELSE ObjectHook(PyDict(f))
    ELSE IF j.cls = "jsonclass"
         THEN LET d == JsonLoads(j.data)
              IN  IF IsRaise(d) THEN d ELSE ObjectHook(JsonClass(j.name, d))
    ELSE j

Serialize(value) == JsonDumps(value)
\* a text that is no JSON document
Malformed == [cls |-> "malformed", value |-> <<>>]

Unserialize(data) ==
    IF data.cls = "malformed"
    THEN Raise("ValueError", "No JSON object could be decoded", "")
    ELSE JsonLoads(data)

-----------------------------------------------------------------------------
(* The text of a line: json.dumps with its default separators and           *)
(* ensure_ascii, and the newline send appends.                              *)

ChNewline == 10
ChQuote == 34
ChBackslash == 92

\* the characters of the names and texts the messages are made of
Spell(t) ==
    CASE t = "2.0" -> <<50, 46, 48>>
      [] t = "jsonrpc" -> <<106, 115, 111, 110, 114, 112, 99>>
      [] t = "method" -> <<109, 101, 116, 104, 111, 100>>
      [] t = "params" -> <<112, 97, 114, 97, 109, 115>>
      [] t = "id" -> <<105, 100>>
      [] t = "result" -> <<114, 101, 115, 117, 108, 116>>
      [] t = "error" -> <<101, 114, 114, 111, 114>>
      [] t = "code" -> <<99, 111, 100, 101>>
      [] t = "message" -> <<109, 101, 115, 115, 97, 103, 101>>
      [] t = "get" -> <<103, 101, 116>>
      [] t = "set" -> <<115, 101, 116>>
      [] t = "walk" -> <<119, 97, 108, 107>>
      [] t = "requestTimedOut" -> <<114, 101, 113, 117, 101, 115, 116, 84, 105, 109, 101, 100, 79, 117, 116>>
      [] t = "genErr" -> <<103, 101, 110, 69, 114, 114>>
      [] t = "__jsonclass__" -> <<95, 95, 106, 115, 111, 110, 99, 108, 97, 115, 115, 95, 95>>
      [] t = "OctetString" -> <<79, 99, 116, 101, 116, 83, 116, 114, 105, 110, 103>>
      [] t = "ObjectIdentifier" -> <<79, 98, 106, 101, 99, 116, 73, 100, 101, 110, 116, 105, 102, 105, 101, 114>>
      [] t = "Integer32" -> <<73, 110, 116, 101, 103, 101, 114, 51, 50>>
      [] t = "Counter32" -> <<67, 111, 117, 110, 116, 101, 114, 51, 50>>
      [] t = "IpAddress" -> <<73, 112, 65, 100, 100, 114, 101, 115, 115>>
      [] t = "Gauge32" -> <<71, 97, 117, 103, 101, 51, 50>>
      [] t = "TimeTicks" -> <<84, 105, 109, 101, 84, 105, 99, 107, 115>>
      [] t = "Opaque" -> <<79, 112, 97, 113, 117, 101>>
      [] t = "Counter64" -> <<67, 111, 117, 110, 116, 101, 114, 54, 52>>

HexDigit(n) == IF n < 10 THEN ChZero + n ELSE 97 + (n - 10)

\* one character of a str inside a JSON string (a str is decoded as UTF-8, and
\* none of the bytes above 127 modelled is part of a UTF-8 sequence)
JsonEscape(c) ==
    IF c = ChQuote THEN <<ChBackslash, ChQuote>>
    ELSE IF c = ChBackslash THEN <<ChBackslash, ChBackslash>>
    ELSE IF c = ChNewline THEN <<ChBackslash, 110>>
    ELSE IF c = 13 THEN <<ChBackslash, 114>>
    ELSE IF c = 9 THEN <<ChBackslash, 116>>
    ELSE IF c = 8 THEN <<ChBackslash, 98>>
    ELSE IF c = 12 THEN <<ChBackslash, 102>>
    ELSE IF c < 32 \/ c = 127
         THEN <<ChBackslash, 117, ChZero, ChZero, HexDigit(c \div 16), HexDigit(c % 16)>>
    ELSE <<c>>

RECURSIVE JsonChars(_)
JsonChars(b) == IF Len(b) = 0 THEN <<>> ELSE JsonEscape(b[1]) \o JsonChars(Tail(b))

\* a str or a text as a JSON string
JsonString(v) ==
    IF v.cls = "text" THEN PyStr(<<ChQuote>> \o Spell(v.value) \o <<ChQuote>>)
    ELSE IF \E i \in 1..Len(v.value) : v.value[i] > 127
         THEN Raise("UnicodeDecodeError", "'utf8' codec can't decode byte", "")
    ELSE PyStr(<<ChQuote>> \o JsonChars(v.value) \o <<ChQuote>>)

\* the text json.dumps writes for a JSON tree.  named: the keys of the dict are
\* names written in the code (the keyword arguments of send, the fields of its
\* error), not str data.  The order of a dict's items is not specified, the
\* model takes one.
RECURSIVE JsonText(_, _)
RECURSIVE JsonItems(_, _, _)
RECURSIVE JsonElements(_)
JsonItems(f, keys, named) ==
    IF keys = {} THEN PyStr(<<>>)
    ELSE LET k == CHOOSE x \in keys : TRUE
             key == JsonString(IF named THEN PyText(k) ELSE PyStr(k))
             val == JsonText(f[k], named /\ k = "error")
             rest == JsonItems(f, keys \ {k}, named)
         IN  IF IsRaise(key) THEN key
             ELSE IF IsRaise(val) THEN val
             ELSE IF IsRaise(rest) THEN rest
             ELSE PyStr(key.value \o <<58, 32>> \o val.value
                        \o (IF keys = {k} THEN <<>> ELSE <<44, 32>>) \o rest.value)
JsonElements(q) ==
    IF Len(q) = 0 THEN PyStr(<<>>)
    ELSE LET val == JsonText(q[1], FALSE)
             rest == JsonElements(Tail(q))
         IN  IF IsRaise(val) THEN val
             ELSE IF IsRaise(rest) THEN rest
             ELSE PyStr(val.value \o (IF Len(q) = 1 THEN <<>> ELSE <<44, 32>>) \o rest.value)
JsonText(j, named) ==
    IF j.cls = "NoneType" THEN PyStr(<<110, 117, 108, 108>>)
    ELSE IF j.cls = "int" THEN PyStr(j.value)
    ELSE IF j.cls \in {"str", "text"} THEN JsonString(j)
    ELSE IF j.cls = "list"
         THEN LET body == JsonElements(j.value)
              IN  IF IsRaise(body) THEN body ELSE PyStr(<<91>> \o body.value \o <<93>>)
    ELSE IF j.cls = "dict"
         THEN LET body == JsonItems(j.value, DOMAIN j.value, named)
              IN  IF IsRaise(body) THEN body ELSE PyStr(<<123>> \o body.value \o <<125>>)
    ELSE LET body == JsonElements(<<PyText(j.name), j.data>>)
         IN  IF IsRaise(body) THEN body
             ELSE PyStr(<<123, ChQuote>> \o Spell("__jsonclass__") \o <<ChQuote, 58, 32, 91>>
                        \o body.value \o <<93, 125>>)

\* _TransmitDispatcher.send_line: the text with a newline of its own
TransmitBySendLine(json) == json \o <<ChNewline>>

\* transmit, of either peer: the text is written as it is (SnmpClient writes
\* and flushes, _Server hands it to the send of its transmitter)
Transmit(json) == json

\* _JsonRpcPeer.send: what is written to the pipe, or the exception of serialize
Send(kwargs) ==
    LET tree == Serialize(PyDict(kwargs))
    IN  IF IsRaise(tree) THEN tree
        ELSE LET text == JsonText(tree, TRUE)
             IN  IF IsRaise(text) THEN text
                 ELSE PyStr(Transmit(text.value \o <<ChNewline>>))

-----------------------------------------------------------------------------
(* The device engine's native values (pysnmp rfc1902 / rfc1905 / pyasn1     *)
(* univ).  A native value is a record of its class and payload; the payload *)
(* of an ObjectName is its sequence of subidentifiers.                      *)

Native(cls, value) == [cls |-> cls, value |-> value]

\* the classes a native class is an instance of (itself and its bases)
NativeBases(cls) ==
    {cls} \cup
    (IF cls \in {"rfc1902.Integer32", "rfc1902.Counter32", "rfc1902.Gauge32",
                 "rfc1902.Unsigned32", "rfc1902.TimeTicks", "rfc1902.Counter64"}
     THEN {"univ.Integer"}
     ELSE IF cls \in {"rfc1902.OctetString", "rfc1902.IpAddress", "rfc1902.Opaque",
                      "rfc1902.Bits"}
     THEN {"univ.OctetString"}
     ELSE IF cls = "rfc1902.ObjectName" THEN {"univ.ObjectIdentifier"}
     ELSE {})

IsInstance(v, cls) == cls \in NativeBases(v.cls)

\* the number a string of digits denotes
RECURSIVE DigitsToNat(_)
DigitsToNat(d) ==
    IF Len(d) = 0 THEN 0
    ELSE DigitsToNat(SubSeq(d, 1, Len(d) - 1)) * 10 + (d[Len(d)] - ChZero)

\* rfc1902.ObjectName(text): the subidentifiers of a dotted string
ObjectName(s) ==
    LET parts == SelectSeq(Split(s, ChDot), LAMBDA p : Len(p) > 0)
    IN  Native("rfc1902.ObjectName", [i \in 1..Len(parts) |-> DigitsToNat(parts[i])])

\* str(ObjectName): dotted decimal
OidText(o) == Join([i \in 1..Len(o) |-> NatToStr(o[i])], ChDot)

InvalidType(name) == Raise("SnmpError", "Invalid type: %s", name)

\* _Server._to_pysnmp
ToPysnmp(value) ==
    IF value.cls = "NoneType" THEN value
    ELSE IF value.cls = "OctetString" THEN Native("rfc1902.OctetString", PyStrOf(value.value))
    ELSE IF value.cls = "ObjectIdentifier" THEN ObjectName(PyStrOf(value.value).value)
    ELSE IF value.cls = "Integer32"
         THEN LET n == PyIntOf(value.value)
              IN  IF IsRaise(n) THEN n ELSE Native("rfc1902.Integer32", n)
    ELSE IF value.cls = "Counter32"
         THEN LET n == PyIntOf(value.value)
              IN  IF IsRaise(n) THEN n ELSE Native("rfc1902.Counter32", n)
    ELSE IF value.cls = "IpAddress"
         THEN LET s == PyStrOf(value.value)
              IN  IF IsRaise(s) THEN s ELSE Native("rfc1902.IpAddress", s)
    ELSE IF value.cls = "Gauge32"
         THEN LET n == PyIntOf(value.value)
              IN  IF IsRaise(n) THEN n ELSE Native("rfc1902.Gauge32", n)
    ELSE IF value.cls = "TimeTicks"
         THEN LET n == PyIntOf(value.value)
              IN  IF IsRaise(n) THEN n ELSE Native("rfc1902.TimeTicks", n)
    ELSE IF value.cls = "Opaque" THEN Native("rfc1902.Opaque", value.value)
    ELSE IF value.cls = "Counter64"
         THEN LET s == PyStrOf(value.value)
              IN  IF IsRaise(s) THEN s
                  ELSE LET n == ParseInt(s.value)
                       IN  IF IsRaise(n) THEN n ELSE Native("rfc1902.Counter64", n)
    ELSE InvalidType(value.cls)

\* _from_pysnmp that tells noSuchObject from the other two absent values
FromPysnmpTellsApart(value) ==
    IF value.cls = "NoneType" THEN value
    ELSE IF IsInstance(value, "rfc1902.OctetString") THEN OctetString(value.value)
    ELSE IF IsInstance(value, "rfc1902.ObjectName")
         THEN ObjectIdentifier(PyStr(OidText(value.value)))
    ELSE IF IsInstance(value, "univ.Integer") THEN Integer32(value.value)
    ELSE IF IsInstance(value, "rfc1902.Counter32") THEN Counter32(value.value)
    ELSE IF IsInstance(value, "rfc1902.IpAddress") THEN IpAddress(PyStrOf(value.value))
    ELSE IF IsInstance(value, "rfc1902.Gauge32") THEN Gauge32(value.value)
    ELSE IF IsInstance(value, "rfc1902.TimeTicks") THEN TimeTicks(value.value)
    ELSE IF IsInstance(value, "rfc1902.Opaque") THEN Opaque(PyStrOf(value.value))
    ELSE IF IsInstance(value, "rfc1905.NoSuchObject") THEN OctetString(PyStr(<<>>))
    ELSE IF IsInstance(value, "rfc1905.NoSuchInstance") THEN PyNone
    ELSE IF IsInstance(value, "rfc1905.EndOfMibView") THEN PyNone
    ELSE InvalidType(value.cls)

\* _Server._from_pysnmp
FromPysnmp(value) ==
    IF value.cls = "NoneType" THEN value
    ELSE IF IsInstance(value, "rfc1902.OctetString") THEN OctetString(value.value)
    ELSE IF IsInstance(value, "rfc1902.ObjectName")
         THEN ObjectIdentifier(PyStr(OidText(value.value)))
    ELSE IF IsInstance(value, "univ.Integer") THEN Integer32(value.value)
    ELSE IF IsInstance(value, "rfc1902.Counter32") THEN Counter32(value.value)
    ELSE IF IsInstance(value, "rfc1902.IpAddress") THEN IpAddress(PyStrOf(value.value))
    ELSE IF IsInstance(value, "rfc1902.Gauge32") THEN Gauge32(value.value)
    ELSE IF IsInstance(value, "rfc1902.TimeTicks") THEN TimeTicks(value.value)
    ELSE IF IsInstance(value, "rfc1902.Opaque") THEN Opaque(PyStrOf(value.value))
    ELSE IF IsInstance(value, "rfc1905.NoSuchObject") THEN PyNone
    ELSE IF IsInstance(value, "rfc1905.NoSuchInstance") THEN PyNone
    ELSE IF IsInstance(value, "rfc1905.EndOfMibView") THEN PyNone
    ELSE InvalidType(value.cls)

-----------------------------------------------------------------------------
(* _Server: the handlers.  A handler is an operator from its arguments to   *)
(* its effect: the lines it transmits to its worker, the device requests it *)
(* issues (each with its callback and callback context), and the exception  *)
(* that escapes it, if any.                                                 *)

EmptyDict == [k \in {} |-> PyNone]
DictPut(f, k, v) == [x \in DOMAIN f \cup {k} |-> IF x = k THEN v ELSE f[x]]

Effect(send, issue, raised) == [send |-> send, issue |-> issue, raised |-> raised]
Escapes(exc) == Effect(<<>>, <<>>, exc)

\* _JsonRpcPeer.send / _Server.transmit: one serialized line to the worker
SendLine(kwargs) ==
    LET line == Serialize(PyDict(kwargs))
    IN  IF IsRaise(line) THEN Escapes(line) ELSE Effect(<<line>>, <<>>, PyNone)

\* _Server._send_result
SendResult(id, result) ==
    SendLine([jsonrpc |-> PyText("2.0"), result |-> result, id |-> id])

\* _Server._send_error
SendError(id, error) ==
    SendLine([jsonrpc |-> PyText("2.0"),
              error |-> PyDict([code |-> PyInt(<<ChZero>>), message |-> error]),
              id |-> id])

\* a request to the device: _SnmpConnection.get / set / get_bulk with its callback
DeviceRequest(kind, args, cb, ctx) == [kind |-> kind, args |-> args, cb |-> cb, ctx |-> ctx]

MaxRepetitions == 10
NonRepeaters == 0

\* rpc_get asking the device for each name in a Get of its own
RpcGetOneEach(id, object_ids) ==
    LET texts == [i \in 1..Len(object_ids) |-> PyStrOf(object_ids[i])]
    IN  IF \E i \in 1..Len(texts) : IsRaise(texts[i]) \/ texts[i].cls # "str"
        THEN Escapes(Raise("TypeError", "ObjectName", ""))
        ELSE Effect(<<>>,
                    [i \in 1..Len(texts) |->
                        DeviceRequest("get", <<ObjectName(texts[i].value)>>,
                                      "_on_rpc_get", id)],
                    PyNone)

\* _Server.rpc_get, with _SnmpConnection.get
RpcGet(id, object_ids) ==
    LET texts == [i \in 1..Len(object_ids) |-> PyStrOf(object_ids[i])]
    IN  IF \E i \in 1..Len(texts) : IsRaise(texts[i]) \/ texts[i].cls # "str"
        THEN Escapes(Raise("TypeError", "ObjectName", ""))
        ELSE Effect(<<>>,
                    <<DeviceRequest("get",
                                    [i \in 1..Len(texts) |-> ObjectName(texts[i].value)],
                                    "_on_rpc_get", id)>>,
                    PyNone)

\* the loop of _on_rpc_get over var_binds: the mapping built, or the exception
RECURSIVE GetScan(_, _, _)
GetScan(var_binds, i, res) ==
    IF i > Len(var_binds) THEN PyDict(res)
    ELSE LET name == FromPysnmp(var_binds[i][1])
         IN  IF IsRaise(name) THEN name
             ELSE LET value == FromPysnmp(var_binds[i][2])
                  IN  IF IsRaise(value) THEN value
                      ELSE GetScan(var_binds, i + 1,
                                   DictPut(res, PyStrOf(name).value, value))

\* _on_rpc_get with a loop that stops one var-bind early
OnRpcGetOneShort(reply, ctx) ==
    LET id == ctx
    IN  IF reply.error_indication # "" THEN SendError(id, PyText(reply.error_indication))
        ELSE IF reply.error_status # "" THEN SendError(id, PyText(reply.error_status))
        ELSE LET res == GetScan(SubSeq(reply.var_binds, 1, Len(reply.var_binds) - 1), 1,
                                EmptyDict)
             IN  IF IsRaise(res) THEN Escapes(res) ELSE SendResult(id, res)

\* _on_rpc_get that, having sent the error response, raises the failure as well
OnRpcGetErrorRaises(reply, ctx) ==
    LET id == ctx
        failure == IF reply.error_indication # "" THEN reply.error_indication
                   ELSE reply.error_status
    IN  IF failure # ""
        THEN Effect(SendError(id, PyText(failure)).send, <<>>, Raise("SnmpError", failure, ""))
        ELSE LET res == GetScan(reply.var_binds, 1, EmptyDict)
             IN  IF IsRaise(res) THEN Escapes(res) ELSE SendResult(id, res)

\* _Server._on_rpc_get
OnRpcGet(reply, ctx) ==
    LET id == ctx
    IN  IF reply.error_indication # "" THEN SendError(id, PyText(reply.error_indication))
        ELSE IF reply.error_status # "" THEN SendError(id, PyText(reply.error_status))
        ELSE LET res == GetScan(reply.var_binds, 1, EmptyDict)
             IN  IF IsRaise(res) THEN Escapes(res) ELSE SendResult(id, res)

\* _Server.rpc_set, with _SnmpConnection.set: var_binds is the decoded dict; the
\* list of bindings is kept as the <<name, value>> made for each key
\* (dict.items() has no order the model could rely on)
RpcSet(id, var_binds) ==
    IF var_binds.cls # "dict" THEN Escapes(Raise("AttributeError", "items", var_binds.cls))
    ELSE LET conv == [k \in DOMAIN var_binds.value |-> ToPysnmp(var_binds.value[k])]
         IN  IF \E k \in DOMAIN conv : IsRaise(conv[k])
             THEN Escapes(conv[CHOOSE k \in DOMAIN conv : IsRaise(conv[k])])
             ELSE Effect(<<>>,
                         <<DeviceRequest("set",
                                         [k \in DOMAIN conv |-> <<ObjectName(k), conv[k]>>],
                                         "_on_rpc_set", id)>>,
                         PyNone)

\* _Server._on_rpc_set
OnRpcSet(reply, ctx) ==
    LET id == ctx
    IN  IF reply.error_indication # "" THEN SendError(id, PyText(reply.error_indication))
        ELSE IF reply.error_status # "" THEN SendError(id, PyText(reply.error_status))
        ELSE SendResult(id, PyNone)

\* _SnmpConnection.get_bulk(var_names, callback): bulkCmd with the defaults of
\* non_repeaters and max_repetitions
GetBulk(var_names, cb, ctx) ==
    DeviceRequest("bulk", var_names, cb, ctx)
        @@ [non_repeaters |-> NonRepeaters, max_repetitions |-> MaxRepetitions]

\* _do_rpc_walk reading on from the root of the walk
DoRpcWalkFromRoot(id, request_object_id, object_id, res) ==
    Effect(<<>>,
           <<GetBulk(<<ObjectName(request_object_id)>>, "_on_rpc_walk",
                     [id |-> id, request_object_id |-> request_object_id, res |-> res])>>,
           PyNone)

\* _Server._do_rpc_walk
DoRpcWalk(id, request_object_id, object_id, res) ==
    Effect(<<>>,
           <<GetBulk(<<ObjectName(object_id)>>, "_on_rpc_walk",
                     [id |-> id, request_object_id |-> request_object_id, res |-> res])>>,
           PyNone)

\* rpc_walk going on with the mapping of a walk that is in flight
RpcWalkSharedMapping(id, object_id) ==
    LET text == PyStrOf(object_id)
        walks == {x \in inflight : x.req.kind = "bulk"}
        res == IF walks = {} THEN EmptyDict ELSE (CHOOSE x \in walks : TRUE).req.ctx.res
    IN  IF IsRaise(text) \/ text.cls # "str" THEN Escapes(Raise("TypeError", "ObjectName", ""))
        ELSE DoRpcWalk(id, text.value, text.value, res)

\* _Server.rpc_walk
RpcWalk(id, object_id) ==
    LET text == PyStrOf(object_id)
    IN  IF IsRaise(text) \/ text.cls # "str" THEN Escapes(Raise("TypeError", "ObjectName", ""))
        ELSE DoRpcWalk(id, text.value, text.value, EmptyDict)

\* text[:n] and text[n:]
SliceTo(text, n) == SubSeq(text, 1, IF n < Len(text) THEN n ELSE Len(text))
SliceFrom(text, n) == SubSeq(text, n + 1, Len(text))

\* whether _on_rpc_walk takes object_id to lie under request_object_id
WalkKeeps(object_id, request_object_id) ==
    SliceTo(object_id, Len(request_object_id)) = request_object_id

\* the loop of _on_rpc_walk over the var-binds of the table, row by row: how it
\* ended ("boundary": a var-bind outside the subtree; "end": the table is used
\* up; "raise"), the mapping, the last OID stored and the OIDs stored on the way
RECURSIVE WalkScan(_, _, _, _, _, _)
WalkScan(var_binds, i, request_object_id, res, last_object_id, stored) ==
    IF i > Len(var_binds)
    THEN [how |-> "end", res |-> res, last |-> last_object_id, stored |-> stored, exc |-> PyNone]
    ELSE LET name == FromPysnmp(var_binds[i][1])
         IN  IF IsRaise(name)
             THEN [how |-> "raise", res |-> res, last |-> last_object_id, stored |-> stored,
                   exc |-> name]
             ELSE LET object_id == PyStrOf(name).value
                      prefix_len == Len(request_object_id)
                  IN  IF ~WalkKeeps(object_id, request_object_id)
                      THEN [how |-> "boundary", res |-> res, last |-> last_object_id,
                            stored |-> stored, exc |-> PyNone]
                      ELSE LET idx == SliceFrom(object_id, prefix_len + 1)
                               value == FromPysnmp(var_binds[i][2])
                           IN  IF IsRaise(value)
                               THEN [how |-> "raise", res |-> res, last |-> last_object_id,
                                     stored |-> stored, exc |-> value]
                               ELSE WalkScan(var_binds, i + 1, request_object_id,
                                             DictPut(res, idx, value), <<object_id>>,
                                             stored \cup {object_id})

\* the var-binds of a var-bind table in row order
RECURSIVE Flatten(_)
Flatten(table) == IF Len(table) = 0 THEN <<>> ELSE table[1] \o Flatten(Tail(table))

\* _on_rpc_walk that reads on from the requested OID when the table held nothing
OnRpcWalkReadsOn(reply, ctx) ==
    LET id == ctx.id
        request_object_id == ctx.request_object_id
    IN  IF reply.error_indication # "" THEN SendError(id, PyText(reply.error_indication))
        ELSE IF reply.error_status # "" THEN SendError(id, PyText(reply.error_status))
        ELSE LET scan == WalkScan(Flatten(reply.var_bind_table), 1, request_object_id,
                                  ctx.res, <<>>, {})
             IN  IF scan.how = "raise" THEN Escapes(scan.exc)
                 ELSE IF scan.how = "boundary" THEN SendResult(id, PyDict(scan.res))
                 ELSE IF scan.last = <<>>
                      THEN DoRpcWalk(id, request_object_id, request_object_id, scan.res)
                 ELSE DoRpcWalk(id, request_object_id, scan.last[1], scan.res)

\* _Server._on_rpc_walk
OnRpcWalk(reply, ctx) ==
    LET id == ctx.id
        request_object_id == ctx.request_object_id
    IN  IF reply.error_indication # "" THEN SendError(id, PyText(reply.error_indication))
        ELSE IF reply.error_status # "" THEN SendError(id, PyText(reply.error_status))
        ELSE LET scan == WalkScan(Flatten(reply.var_bind_table), 1, request_object_id,
                                  ctx.res, <<>>, {})
             IN  IF scan.how = "raise" THEN Escapes(scan.exc)
                 ELSE IF scan.how = "boundary" THEN SendResult(id, PyDict(scan.res))
                 ELSE IF scan.last = <<>> THEN SendResult(id, PyDict(scan.res))
                 ELSE DoRpcWalk(id, request_object_id, scan.last[1], scan.res)

-----------------------------------------------------------------------------
(* Specification SpecCodec: one value through serialize, then unserialize   *)

MaxBytes == 2
MaxOpaqueDepth == 2

ByteSamples == {0, 10, 65, 255}

RECURSIVE ByteStrings(_)
ByteStrings(n) ==
    IF n = 0 THEN {<<>>}
    ELSE ByteStrings(n - 1) \cup
         {Append(b, c) : b \in {x \in ByteStrings(n - 1) : Len(x) = n - 1}, c \in ByteSamples}

\* "7", "-1", "4294967295" (2^32 - 1), "4294967296" (2^32), "18446744073709551615" (2^64 - 1)
Num7 == PyInt(<<55>>)
NumMinus1 == PyInt(<<45, 49>>)
NumMax32 == PyInt(<<52, 50, 57, 52, 57, 54, 55, 50, 57, 53>>)
NumPow32 == PyInt(<<52, 50, 57, 52, 57, 54, 55, 50, 57, 54>>)
NumMax64 == PyInt(<<49, 56, 52, 52, 54, 55, 52, 52, 48, 55, 51, 55, 48, 57, 53, 53, 49, 54, 49, 53>>)
\* "1.3.6.1.4.1", "1.3.6.01.4.1", "10.0.0.1"
TextOid == PyStr(<<49, 46, 51, 46, 54, 46, 49, 46, 52, 46, 49>>)
TextOidZero == PyStr(<<49, 46, 51, 46, 54, 46, 48, 49, 46, 52, 46, 49>>)
TextIp == PyStr(<<49, 48, 46, 48, 46, 48, 46, 49>>)

\* the values a module can build with the constructors of the value classes
CodecScalars ==
    {OctetString(PyStr(b)) : b \in ByteStrings(MaxBytes)}
    \cup {ObjectIdentifier(TextOid), ObjectIdentifier(TextOidZero)}
    \cup {Integer32(Num7), Integer32(NumMinus1), Integer32(PyStr(<<55>>))}
    \cup {Counter32(Num7), Counter32(NumMax32)}
    \cup {Gauge32(Num7), Gauge32(NumMax32)}
    \cup {TimeTicks(Num7), TimeTicks(NumMax32)}
    \cup {IpAddress(TextIp)}
    \cup {Counter64(Num7), Counter64(NumPow32), Counter64(NumMax64)}
    \cup {Opaque(PyStr(b)) : b \in ByteStrings(MaxBytes)}

RECURSIVE CodecValues(_)
CodecValues(depth) ==
    IF depth = 0 THEN CodecScalars
    ELSE CodecValues(depth - 1) \cup {Opaque(v) : v \in CodecValues(depth - 1)}

CodecInit ==
    /\ cval \in CodecValues(MaxOpaqueDepth)
    /\ cwire = PyNone
    /\ cout = PyNone
    /\ cpc = "start"

CodecIdle ==
    /\ cval = PyNone
    /\ cwire = PyNone
    /\ cout = PyNone
    /\ cpc = "idle"

\* serialize(v); an exception of serialize is the outcome of the round trip
CodecSerialize ==
    /\ cpc = "start"
    /\ cwire' = Serialize(cval)
    /\ cpc' = IF IsRaise(cwire') THEN "done" ELSE "serialized"
    /\ cout' = IF IsRaise(cwire') THEN cwire' ELSE cout
    /\ UNCHANGED <<cval, notCodecVars>>

\* unserialize(line)
CodecUnserialize ==
    /\ cpc = "serialized"
    /\ cout' = Unserialize(cwire)
    /\ cpc' = "done"
    /\ UNCHANGED <<cval, cwire, notCodecVars>>

CodecNext == CodecSerialize \/ CodecUnserialize

-----------------------------------------------------------------------------
(* The device: a table of <<OID, native value>>, answering Get, Set and     *)
(* GetBulk as an SNMP agent does.                                           *)

\* lexicographic order of OIDs (sequences of subidentifiers)
RECURSIVE OidLess(_, _)
OidLess(a, b) ==
    IF Len(a) = 0 THEN Len(b) > 0
    ELSE IF Len(b) = 0 THEN FALSE
    ELSE IF a[1] # b[1] THEN a[1] < b[1]
    ELSE OidLess(Tail(a), Tail(b))

\* the entries of a table in OID order
RECURSIVE SortedEntries(_)
SortedEntries(mib) ==
    IF mib = {} THEN <<>>
    ELSE LET first == CHOOSE e \in mib : \A f \in mib : f = e \/ OidLess(e[1], f[1])
         IN  <<first>> \o SortedEntries(mib \ {first})

\* the entries that follow an OID, in order
MibAfter(mib, oid) == SortedEntries({e \in mib : OidLess(oid, e[1])})

EndOfMibView == Native("rfc1905.EndOfMibView", <<>>)
NoSuchInstance == Native("rfc1905.NoSuchInstance", <<>>)
NoSuchObject == Native("rfc1905.NoSuchObject", <<>>)

Reply(error_indication, error_status, var_binds, var_bind_table) ==
    [error_indication |-> error_indication, error_status |-> error_status,
     var_binds |-> var_binds, var_bind_table |-> var_bind_table]

\* the answer to GetBulk(name) with n repetitions: the n entries after name, one
\* row each; past the last entry the name asked for, with endOfMibView
BulkTable(mib, name, n) ==
    LET after == MibAfter(mib, name.value)
        count == IF n < Len(after) THEN n ELSE Len(after)
    IN  IF n = 0 THEN <<>>
        ELSE IF Len(after) = 0 THEN << <<<<name, EndOfMibView>>>> >>
        ELSE [i \in 1..count |-> << <<Native("rfc1902.ObjectName", after[i][1]), after[i][2]>> >>]

ErrorIndications == {"requestTimedOut"}
ErrorStatuses == {"genErr"}

-----------------------------------------------------------------------------
(* Specification SpecWalk: one walk request served by one broker            *)

MaxEntries == 11

\* "1.3.1", the root walked; its entries are 1.3.1.1 .. 1.3.1.k
WalkRootOid == <<1, 3, 1>>
\* what can follow the subtree: a sibling, a sibling whose text starts with the
\* root's text (1.3.10.1), an entry of a later branch
WalkOutside == {<<1, 3, 2, 1>>, <<1, 3, 10, 1>>, <<1, 4, 1>>}

\* the value the device holds at entry i of the subtree
EntryValue(i) ==
    IF i % 2 = 1 THEN Native("rfc1902.Integer32", PyInt(NatToStr(i)))
    ELSE Native("rfc1902.OctetString", PyStr(<<65, ChZero + (i % 10)>>))

OutsideValue == Native("rfc1902.Integer32", PyInt(<<ChZero>>))

\* the tables: the subtree's first k entries and any of the entries after it,
\* none included (the subtree is then the end of the device's table)
WalkMibs ==
    {{<<Append(WalkRootOid, i), EntryValue(i)>> : i \in 1..k}
        \cup {<<o, OutsideValue>> : o \in out} :
     k \in 0..MaxEntries, out \in SUBSET WalkOutside}

\* how many var-binds a device puts in one bulk answer (never more than asked)
ReplySizes == {0, 1, 4, MaxRepetitions}

\* the round trips a walk is followed for
MaxWalkRounds == 14

WalkId == PyInt(<<49>>)

WalkInit ==
    /\ wmib \in WalkMibs
    /\ wroot = PyStr(OidText(WalkRootOid))
    /\ wpc = "start"
    /\ wreq = <<>>
    /\ wsent = <<>>
    /\ wstored = {}
    /\ wescaped = {}
    /\ wempty = FALSE
    /\ wrounds = 0

WalkIdle ==
    /\ wmib = {}
    /\ wroot = PyNone
    /\ wpc = "idle"
    /\ wreq = <<>>
    /\ wsent = <<>>
    /\ wstored = {}
    /\ wescaped = {}
    /\ wempty = FALSE
    /\ wrounds = 0

\* what a handler's effect does to the walk
WalkApply(eff) ==
    /\ wsent' = wsent \o eff.send
    /\ wreq' = eff.issue
    /\ wescaped' = IF IsRaise(eff.raised) THEN wescaped \cup {eff.raised} ELSE wescaped
    /\ wpc' = IF Len(eff.issue) > 0 THEN "await" ELSE "done"

\* handle_line of a walk request: rpc_walk
WalkStart ==
    /\ wpc = "start"
    /\ WalkApply(RpcWalk(WalkId, wroot))
    /\ UNCHANGED <<wmib, wroot, wstored, wempty, wrounds, notWalkVars>>

\* the device answers the bulk read with var-binds: _on_rpc_walk
WalkReply ==
    /\ wpc = "await"
    /\ wrounds < MaxWalkRounds
    /\ wrounds' = wrounds + 1
    /\ \E n \in ReplySizes :
        LET table == BulkTable(wmib, wreq[1].args[1], n)
            reply == Reply("", "", <<>>, table)
            scan == WalkScan(Flatten(table), 1, wreq[1].ctx.request_object_id,
                             wreq[1].ctx.res, <<>>, {})
        IN  /\ WalkApply(OnRpcWalk(reply, wreq[1].ctx))
            /\ wstored' = wstored \cup scan.stored
            /\ wempty' = (wempty \/ Len(table) = 0)
    /\ UNCHANGED <<wmib, wroot, notWalkVars>>

\* the bulk read fails: a transport failure or a device status
WalkFail ==
    /\ wpc = "await"
    /\ wrounds < MaxWalkRounds
    /\ wrounds' = wrounds + 1
    /\ \E r \in {Reply(e, "", <<>>, <<>>) : e \in ErrorIndications}
               \cup {Reply("", st, <<>>, <<>>) : st \in ErrorStatuses} :
        WalkApply(OnRpcWalk(r, wreq[1].ctx))
    /\ UNCHANGED <<wmib, wroot, wstored, wempty, notWalkVars>>

WalkNext == WalkStart \/ WalkReply \/ WalkFail

-----------------------------------------------------------------------------
(* Specification SpecGet: one get request served by one broker              *)

MaxNames == 2

\* the device's table for get and set: 1.3.1.1, 1.3.1.2 and 1.3.9.1, the last
\* of a type _from_pysnmp does not know
DeviceMib ==
    {<<<<1, 3, 1, 1>>, Native("rfc1902.Integer32", PyInt(<<53>>))>>,
     <<<<1, 3, 1, 2>>, Native("rfc1902.OctetString", PyStr(<<65>>))>>,
     <<<<1, 3, 9, 1>>, Native("rfc1902.Bits", PyStr(<<128>>))>>}

\* the answer to Get: each name with the value held, or noSuchInstance
GetValue(mib, name) ==
    IF \E e \in mib : e[1] = name.value
    THEN (CHOOSE e \in mib : e[1] = name.value)[2]
    ELSE NoSuchInstance

GetVarBinds(mib, names) == [i \in 1..Len(names) |-> <<names[i], GetValue(mib, names[i])>>]

\* the orders a sequence can be returned in
Orders(n) == {p \in [1..n -> 1..n] : \A i, j \in 1..n : p[i] = p[j] => i = j}
Permuted(q, p) == [i \in 1..Len(q) |-> q[p[i]]]

\* "1.3.1.1", "1.3.1.2", "1.3.01.1", "1.3.7.1", "1.3.9.1"
GetNameSamples ==
    {PyStr(<<49, 46, 51, 46, 49, 46, 49>>), PyStr(<<49, 46, 51, 46, 49, 46, 50>>),
     PyStr(<<49, 46, 51, 46, 48, 49, 46, 49>>), PyStr(<<49, 46, 51, 46, 55, 46, 49>>),
     PyStr(<<49, 46, 51, 46, 57, 46, 49>>)}

RECURSIVE NameLists(_)
NameLists(n) ==
    IF n = 0 THEN {<<>>}
    ELSE NameLists(n - 1) \cup
         {Append(q, x) : q \in {y \in NameLists(n - 1) : Len(y) = n - 1}, x \in GetNameSamples}

GetId == PyInt(<<49>>)

GetInit ==
    /\ gnames \in NameLists(MaxNames)
    /\ gpc = "start"
    /\ greq = <<>>
    /\ gsent = <<>>
    /\ gescaped = {}

GetIdle ==
    /\ gnames = <<>>
    /\ gpc = "idle"
    /\ greq = <<>>
    /\ gsent = <<>>
    /\ gescaped = {}

GetApply(eff) ==
    /\ gsent' = gsent \o eff.send
    /\ greq' = eff.issue
    /\ gescaped' = IF IsRaise(eff.raised) THEN gescaped \cup {eff.raised} ELSE gescaped
    /\ gpc' = IF Len(eff.issue) > 0 THEN "await" ELSE "done"

\* handle_line of a get request: rpc_get
GetStart ==
    /\ gpc = "start"
    /\ GetApply(RpcGet(GetId, gnames))
    /\ UNCHANGED <<gnames, notGetVars>>

\* the device answers the Get, its var-binds in any order: _on_rpc_get
GetReply ==
    /\ gpc = "await"
    /\ \E p \in Orders(Len(greq[1].args)) :
        GetApply(OnRpcGet(Reply("", "", Permuted(GetVarBinds(DeviceMib, greq[1].args), p), <<>>),
                          greq[1].ctx))
    /\ UNCHANGED <<gnames, notGetVars>>

\* the Get fails: a transport failure or a device status
GetFail ==
    /\ gpc = "await"
    /\ \E r \in {Reply(e, "", <<>>, <<>>) : e \in ErrorIndications}
               \cup {Reply("", st, <<>>, <<>>) : st \in ErrorStatuses} :
        GetApply(OnRpcGet(r, greq[1].ctx))
    /\ UNCHANGED <<gnames, notGetVars>>

GetNext == GetStart \/ GetReply \/ GetFail

-----------------------------------------------------------------------------
(* Specification Spec: the control-plane process runs exec_command for one  *)
(* worker after the other against one session; each worker's SnmpClient     *)
(* calls get, set and walk; the device answers within the event loop.       *)

NWorkers == 2
MaxCalls == 2

Workers == 1..NWorkers

\* "1.3.1.1", "1.3.9.1", "1.3.1"
NameHeld == PyStr(<<49, 46, 51, 46, 49, 46, 49>>)
NameOfBits == PyStr(<<49, 46, 51, 46, 57, 46, 49>>)
NameRoot == PyStr(<<49, 46, 51, 46, 49>>)

Call(method, params) == [method |-> method, params |-> params]

\* the calls a worker makes: get of a held name, get of a name whose value is
\* of an unknown type, set of nothing, set of a bare number, walk of a root
CallSamples ==
    {Call("get", <<NameHeld>>),
     Call("get", <<NameOfBits>>),
     Call("set", <<PyDict(EmptyDict)>>),
     Call("set", <<PyDict([k \in {NameHeld.value} |-> PyInt(<<53>>)])>>),
     Call("walk", <<NameRoot>>)}

ClientId == PyInt(<<49>>)
NoCall == Call("", <<>>)

\* lines that are no decodable request: no JSON, a value tag _object_hook does
\* not know (a set of a Counter32, as SnmpClient.set serializes it), a method
\* the broker has no rpc_ method for
BadLines ==
    {Malformed,
     Serialize(PyDict([jsonrpc |-> PyText("2.0"), method |-> PyText("set"),
                       params |-> PyList(<<PyDict([k \in {NameHeld.value} |->
                                                     Counter32(PyInt(<<53>>))])>>),
                       id |-> ClientId])),
     Serialize(PyDict([jsonrpc |-> PyText("2.0"), method |-> PyText("reset"),
                       params |-> PyList(<<>>), id |-> ClientId]))}

\* the lines a worker writes to SNMP_PIPE_OUT itself
RawLines ==
    BadLines \cup
    {Serialize(PyDict([jsonrpc |-> PyText("2.0"), method |-> PyText("get"),
                       params |-> PyList(<<NameHeld>>), id |-> ClientId]))}

\* SnmpClient._call, first half: the request line
RequestLine(call) ==
    Serialize(PyDict([jsonrpc |-> PyText("2.0"), method |-> PyText(call.method),
                      params |-> PyList(call.params), id |-> ClientId]))

\* SnmpClient._call, second half: what a response line makes the call return
CallReturn(line) ==
    LET result == Unserialize(line)
    IN  IF IsRaise(result) THEN result
        ELSE IF "error" \in DOMAIN result.value
             THEN Raise("SnmpError", result.value.error.value.message.value, "")
        ELSE IF "result" \in DOMAIN result.value THEN result.value.result
        ELSE PyNone

\* whether a call returned the error response of a device status or of a
\* transport failure (the message of _send_error in a callback)
IsDeviceFailure(ret) ==
    /\ IsRaise(ret)
    /\ ret.value[1] = "SnmpError"
    /\ ret.value[2] \in ErrorIndications \cup ErrorStatuses

\* _Server.handle_line from the decoded request on: getattr(self,
\* 'rpc_%s' % method)(id, *params)
Dispatch(id, method, params) ==
    IF method = "get" THEN RpcGet(id, params)
    ELSE IF method = "set" /\ Len(params) = 1 THEN RpcSet(id, params[1])
    ELSE IF method = "walk" /\ Len(params) = 1 THEN RpcWalk(id, params[1])
    ELSE Escapes(Raise("AttributeError", "rpc_%s", method))

\* _Server.handle_line (the request is decoded once: it is bound, not defined)
HandleLine(line) ==
    CHOOSE eff \in
        {IF IsRaise(request) THEN Escapes(request)
         ELSE CHOOSE e \in {Dispatch(id, method, params) :
                                id \in {request.value.id},
                                method \in {request.value.method.value},
                                params \in {request.value.params.value}} : TRUE
         : request \in {Unserialize(line)}} : TRUE

\* handle_read that stops at a line whose handle_line raises, and raises nothing
RECURSIVE HandleLinesQuiet(_)
HandleLinesQuiet(lines) ==
    IF Len(lines) = 0 THEN Effect(<<>>, <<>>, PyNone)
    ELSE LET eff == HandleLine(lines[1])
         IN  IF IsRaise(eff.raised) THEN Effect(<<>>, <<>>, PyNone)
             ELSE LET rest == HandleLinesQuiet(Tail(lines))
                  IN  Effect(eff.send \o rest.send, eff.issue \o rest.issue, PyNone)

\* _ReceiveDispatcher.handle_read over the lines of a chunk: the effects of
\* handle_line for each line in turn, up to the first that raises
RECURSIVE HandleLines(_)
HandleLines(lines) ==
    IF Len(lines) = 0 THEN Effect(<<>>, <<>>, PyNone)
    ELSE CHOOSE all \in
            {IF IsRaise(eff.raised) THEN eff
             ELSE CHOOSE both \in
                    {Effect(eff.send \o rest.send, eff.issue \o rest.issue, rest.raised) :
                        rest \in {HandleLines(Tail(lines))}} : TRUE
             : eff \in {HandleLine(lines[1])}} : TRUE

\* the callback of a device exchange
Callback(x, reply) ==
    IF x.req.cb = "_on_rpc_get" THEN OnRpcGet(reply, x.req.ctx)
    ELSE IF x.req.cb = "_on_rpc_set" THEN OnRpcSet(reply, x.req.ctx)
    ELSE OnRpcWalk(reply, x.req.ctx)

\* the pipe a callback's response is written to: the transmitter of the broker
\* whose bound method the callback is
ReplyPipeOfCurrent(x) == cur
ReplyPipe(x) == x.server

\* what the device can answer to a request
DeviceAnswers(req) ==
    (IF req.kind = "get" THEN {Reply("", "", GetVarBinds(DeviceMib, req.args), <<>>)}
     ELSE IF req.kind = "set" THEN {Reply("", "", <<>>, <<>>)}
     ELSE {Reply("", "", <<>>, BulkTable(DeviceMib, req.args[1], n)) : n \in {2, MaxRepetitions}})
    \cup {Reply(e, "", <<>>, <<>>) : e \in ErrorIndications}
    \cup {Reply("", st, <<>>, <<>>) : st \in ErrorStatuses}

\* the descriptors exec_command opens for worker k: the two pipes, Popen's three
\* streams, and the duplicates made by asyncore.file_wrapper (one per
\* file_wrapper built, one more per dispatcher built on a file_wrapper)
PipeFds(k) == {<<k, "to_server_r">>, <<k, "to_server_w">>,
               <<k, "from_server_r">>, <<k, "from_server_w">>}
PopenFds(k) == {<<k, "p.stdin">>, <<k, "p.stdout">>, <<k, "p.stderr">>}
DispatcherFds(k) == {<<k, "stdout.wrapper">>, <<k, "stdout.dup">>,
                     <<k, "stderr.wrapper">>, <<k, "stderr.dup">>,
                     <<k, "recv.dup">>, <<k, "xmit.dup">>}
Dispatchers(k) == {<<k, "stdout">>, <<k, "stderr">>, <<k, "recv">>, <<k, "xmit">>}

\* what a handler of broker j adds to the record of its worker's current call
\* (a worker that is gone has no current call)
Noted(j, old, new) == IF proc[j] = "running" THEN new ELSE old

\* whether a process holds the read end of the pipe from broker k
HasReader(k) == proc[k] = "running" \/ <<k, "from_server_r">> \in fds
\* whether a process holds the write end of the pipe to broker k
HasWriter(k) == proc[k] = "running" \/ <<k, "to_server_w">> \in fds

\* the loop of exec_command is polling: while stdout.readable() or stderr.readable()
InLoop ==
    /\ cur \in Workers
    /\ epc[cur] = "loop"
    /\ (<<cur, "stdout">> \notin finished \/ <<cur, "stderr">> \notin finished)

ExecInit ==
    /\ cur = 0
    /\ epc = [k \in Workers |-> "new"]
    /\ sockMap = {}
    /\ fds = {}
    /\ finished = {}
    /\ inflight = {}
    /\ escaped = [k \in Workers |-> PyNone]
    /\ delivered = {}
    /\ proc = [k \in Workers |-> "none"]
    /\ wfd = [k \in Workers |-> {}]
    /\ client = [k \in Workers |-> "idle"]
    /\ ncalls = 0
    /\ ccall = [k \in Workers |-> NoCall]
    /\ cret = [k \in Workers |-> PyNone]
    /\ erred = [k \in Workers |-> FALSE]
    /\ issued = [k \in Workers |-> <<>>]
    /\ pipeTo = [k \in Workers |-> <<>>]
    /\ pipeFrom = [k \in Workers |-> <<>>]

ExecIdle ==
    /\ cur = 0
    /\ epc = <<>>
    /\ sockMap = {}
    /\ fds = {}
    /\ finished = {}
    /\ inflight = {}
    /\ escaped = <<>>
    /\ delivered = {}
    /\ proc = <<>>
    /\ wfd = <<>>
    /\ client = <<>>
    /\ ncalls = 0
    /\ ccall = <<>>
    /\ cret = <<>>
    /\ erred = <<>>
    /\ issued = <<>>
    /\ pipeTo = <<>>
    /\ pipeFrom = <<>>

\* exec_command up to its loop: the pipes, Popen, the session, the dispatchers
ExecStart ==
    /\ cur < NWorkers
    /\ cur > 0 => epc[cur] \in {"returned", "raised", "disturbed"}
    /\ LET k == cur + 1
       IN  /\ cur' = k
           /\ epc' = [epc EXCEPT ![k] = "loop"]
           /\ fds' = fds \cup PipeFds(k) \cup PopenFds(k) \cup DispatcherFds(k)
           /\ sockMap' = sockMap \cup Dispatchers(k)
           /\ proc' = [proc EXCEPT ![k] = "running"]
           /\ wfd' = [wfd EXCEPT ![k] = {"stdout", "stderr"}]
    /\ UNCHANGED <<finished, inflight, escaped, delivered, client, ncalls, ccall, cret,
                   erred, issued, pipeTo, pipeFrom, notExecVars>>

\* _call writing its request without having read the response to the last one
WorkerCallNoWait(k) ==
    /\ proc[k] = "running"
    /\ ncalls < MaxCalls
    /\ \E call \in CallSamples :
        \E line \in {RequestLine(call)} :
            /\ ccall' = [ccall EXCEPT ![k] = call]
            /\ ncalls' = ncalls + 1
            /\ issued' = [issued EXCEPT ![k] = <<>>]
            /\ escaped' = [escaped EXCEPT ![k] = PyNone]
            /\ IF IsRaise(line)
               THEN /\ cret' = [cret EXCEPT ![k] = line]
                    /\ UNCHANGED <<client, pipeTo>>
               ELSE /\ cret' = [cret EXCEPT ![k] = PyNone]
                    /\ client' = [client EXCEPT ![k] = "waiting"]
                    /\ pipeTo' = [pipeTo EXCEPT ![k] = Append(@, line)]
    /\ UNCHANGED <<cur, epc, sockMap, fds, finished, inflight, delivered, proc, wfd,
                   erred, pipeFrom, notExecVars>>

\* SnmpClient._call up to readline: the request is written to the pipe; an
\* exception of serialize is the call's outcome
WorkerCall(k) ==
    /\ proc[k] = "running"
    /\ client[k] = "idle"
    /\ ncalls < MaxCalls
    /\ \E call \in CallSamples :
        \E line \in {RequestLine(call)} :
            /\ ccall' = [ccall EXCEPT ![k] = call]
            /\ ncalls' = ncalls + 1
            /\ issued' = [issued EXCEPT ![k] = <<>>]
            /\ escaped' = [escaped EXCEPT ![k] = PyNone]
            /\ IF IsRaise(line)
               THEN /\ cret' = [cret EXCEPT ![k] = line]
                    /\ UNCHANGED <<client, pipeTo>>
               ELSE /\ cret' = [cret EXCEPT ![k] = PyNone]
                    /\ client' = [client EXCEPT ![k] = "waiting"]
                    /\ pipeTo' = [pipeTo EXCEPT ![k] = Append(@, line)]
    /\ UNCHANGED <<cur, epc, sockMap, fds, finished, inflight, delivered, proc, wfd,
                   erred, pipeFrom, notExecVars>>

\* the worker writes a line to the descriptor SNMP_PIPE_OUT names, not through
\* SnmpClient; the first such line is one of the bad ones
WorkerWrite(k) ==
    /\ proc[k] = "running"
    /\ ncalls < MaxCalls
    /\ client[k] = "bypassed" \/ (client[k] = "idle" /\ ccall[k] = NoCall)
    /\ \E line \in RawLines :
        /\ client[k] = "idle" => line \in BadLines
        /\ pipeTo' = [pipeTo EXCEPT ![k] = Append(@, line)]
    /\ client' = [client EXCEPT ![k] = "bypassed"]
    /\ ncalls' = ncalls + 1
    /\ UNCHANGED <<planeVars, proc, wfd, ccall, cret, erred, issued, pipeFrom, notExecVars>>

\* SnmpClient._call from readline on: the response line is read and decoded
WorkerReceive(k) ==
    /\ proc[k] = "running"
    /\ client[k] = "waiting"
    /\ Len(pipeFrom[k]) > 0
    /\ cret' = [cret EXCEPT ![k] = CallReturn(Head(pipeFrom[k]))]
    /\ pipeFrom' = [pipeFrom EXCEPT ![k] = Tail(@)]
    /\ client' = [client EXCEPT ![k] = "idle"]
    /\ erred' = [erred EXCEPT ![k] = IsDeviceFailure(CallReturn(Head(pipeFrom[k])))]
    /\ UNCHANGED <<planeVars, proc, wfd, ncalls, ccall, issued, pipeTo, notExecVars>>

\* the worker closes its output streams and goes on
WorkerCloseStreams(k) ==
    /\ proc[k] = "running"
    /\ wfd[k] # {}
    /\ wfd' = [wfd EXCEPT ![k] = {}]
    /\ UNCHANGED <<planeVars, proc, client, ncalls, ccall, cret, erred, issued, pipeTo, pipeFrom,
                   notExecVars>>

\* what is left of a worker once its process is gone
WorkerGone(k) ==
    /\ proc' = [proc EXCEPT ![k] = "exited"]
    /\ wfd' = [wfd EXCEPT ![k] = {}]
    /\ client' = [client EXCEPT ![k] = IF @ = "bypassed" THEN @ ELSE "idle"]
    /\ ccall' = [ccall EXCEPT ![k] = NoCall]
    /\ cret' = [cret EXCEPT ![k] = PyNone]
    /\ erred' = [erred EXCEPT ![k] = FALSE]
    /\ issued' = [issued EXCEPT ![k] = <<>>]
    /\ escaped' = [escaped EXCEPT ![k] = PyNone]
    /\ UNCHANGED <<cur, epc, sockMap, fds, finished, inflight, delivered, ncalls, pipeTo,
                   pipeFrom, notExecVars>>

\* the worker exits, between two calls or having written to the pipe itself
WorkerExit(k) ==
    /\ proc[k] = "running"
    /\ client[k] \in {"idle", "bypassed"}
    /\ WorkerGone(k)

\* the worker is killed while its call waits for the response
WorkerKilled(k) ==
    /\ proc[k] = "running"
    /\ client[k] = "waiting"
    /\ WorkerGone(k)

\* the descriptor a dispatcher holds
DupOf(s) == IF s = "stdout" THEN "stdout.dup"
            ELSE IF s = "stderr" THEN "stderr.dup"
            ELSE IF s = "recv" THEN "recv.dup" ELSE "xmit.dup"

\* asyncore.dispatcher.close, reached from handle_close: the dispatcher leaves
\* the map and its descriptor is closed
Close(j, s) ==
    /\ sockMap' = sockMap \ {<<j, s>>}
    /\ fds' = fds \ {<<j, DupOf(s)>>}

\* _BufferedDispatcher.handle_read at end of stream, for a dispatcher of the
\* map: recv() finds the stream closed and calls handle_close, then the empty
\* chunk sets _finished
StreamEof(j) ==
    /\ InLoop
    /\ \E s \in {"stdout", "stderr"} :
        /\ <<j, s>> \in sockMap
        /\ <<j, s>> \notin finished
        /\ s \notin wfd[j]
        /\ finished' = finished \cup {<<j, s>>}
        /\ Close(j, s)
    /\ UNCHANGED <<cur, epc, inflight, escaped, delivered, workerVars, notExecVars>>

\* _ReceiveDispatcher.handle_read with the lines of the pipe: handle_line for
\* each; an exception closes the dispatcher (asyncore's handle_error).  Each
\* line handled without an exception issues one device request, so the i-th
\* request issued is that of the i-th line.
RecvRead(j) ==
    /\ InLoop
    /\ <<j, "recv">> \in sockMap
    /\ <<j, "recv">> \notin finished
    /\ Len(pipeTo[j]) > 0
    /\ \E eff \in {HandleLines(pipeTo[j])} :
           /\ pipeTo' = [pipeTo EXCEPT ![j] = <<>>]
           /\ inflight' = inflight \cup
                {[server |-> j,
                  origin |-> [worker |-> j, id |-> Unserialize(pipeTo[j][i]).value.id],
                  req |-> eff.issue[i]] : i \in 1..Len(eff.issue)}
           /\ issued' = [issued EXCEPT ![j] = Noted(j, @, @ \o eff.issue)]
           /\ IF IsRaise(eff.raised)
              THEN /\ escaped' = [escaped EXCEPT ![j] = Noted(j, @, eff.raised)]
                   /\ Close(j, "recv")
              ELSE UNCHANGED <<escaped, sockMap, fds>>
    /\ UNCHANGED <<cur, epc, finished, delivered, proc, wfd, client, ncalls, ccall, cret,
                   erred, pipeFrom, notExecVars>>

\* _ReceiveDispatcher.handle_read at end of stream
RecvEof(j) ==
    /\ InLoop
    /\ <<j, "recv">> \in sockMap
    /\ <<j, "recv">> \notin finished
    /\ Len(pipeTo[j]) = 0
    /\ ~HasWriter(j)
    /\ finished' = finished \cup {<<j, "recv">>}
    /\ Close(j, "recv")
    /\ UNCHANGED <<cur, epc, inflight, escaped, delivered, workerVars, notExecVars>>

\* the effect of a callback, the write of its response included: a write to a
\* pipe nobody reads raises
CallbackOutcome(x, reply) ==
    LET eff == Callback(x, reply)
    IN  IF Len(eff.send) > 0 /\ ~HasReader(ReplyPipe(x))
        THEN Escapes(Raise("OSError", "Broken pipe", ""))
        ELSE eff

\* the device engine completes an exchange inside the loop: an answer read from
\* its socket, or a timeout at a timer tick.  The callback runs; an exception it
\* raises leaves exec_command (always from a timer tick, and from the socket
\* handler when the engine's handle_error re-raises) or is swallowed there.
DeviceReply ==
    /\ InLoop
    /\ \E x \in inflight : \E reply \in DeviceAnswers(x.req), propagates \in BOOLEAN :
        \E eff \in {CallbackOutcome(x, reply)}, j \in {ReplyPipe(x)} :
            /\ propagates => IsRaise(eff.raised)
            /\ IsRaise(eff.raised) /\ reply.error_indication # "" => propagates
            /\ inflight' = (inflight \ {x}) \cup
                 {[server |-> x.server, origin |-> x.origin, req |-> eff.issue[i]] :
                    i \in 1..Len(eff.issue)}
            /\ issued' = [issued EXCEPT ![x.server] = Noted(x.server, @, @ \o eff.issue)]
            /\ pipeFrom' = [pipeFrom EXCEPT ![j] = @ \o eff.send]
            /\ delivered' = delivered \cup
                 {[pipe |-> j, origin |-> x.origin,
                   id |-> Unserialize(eff.send[i]).value.id] : i \in 1..Len(eff.send)}
            /\ escaped' = IF IsRaise(eff.raised)
                          THEN [escaped EXCEPT ![x.server] = Noted(x.server, @, eff.raised)]
                          ELSE escaped
            /\ epc' = IF ~propagates THEN epc
                      ELSE IF x.server # cur /\ proc[x.server] # "running"
                      THEN [epc EXCEPT ![cur] = "disturbed"]
                      ELSE [epc EXCEPT ![cur] = "raised"]
    /\ UNCHANGED <<cur, sockMap, fds, finished, proc, wfd, client, ncalls, ccall, cret,
                   erred, pipeTo, notExecVars>>

\* the loop of exec_command ends: neither output dispatcher is readable
ExecLoopEnd ==
    /\ cur \in Workers
    /\ epc[cur] = "loop"
    /\ <<cur, "stdout">> \in finished
    /\ <<cur, "stderr">> \in finished
    /\ epc' = [epc EXCEPT ![cur] = "wait"]
    /\ UNCHANGED <<cur, sockMap, fds, finished, inflight, escaped, delivered, workerVars,
                   notExecVars>>

\* p.wait() returns, the four pipe descriptors are closed, exec_command returns
\* (and Popen's streams go with the Popen object); what the pipe from the
\* broker still holds is lost with its last reader
ExecReturn ==
    /\ cur \in Workers
    /\ epc[cur] = "wait"
    /\ proc[cur] = "exited"
    /\ fds' = (fds \ PipeFds(cur)) \ PopenFds(cur)
    /\ epc' = [epc EXCEPT ![cur] = "returned"]
    /\ pipeFrom' = [pipeFrom EXCEPT ![cur] = <<>>]
    /\ UNCHANGED <<cur, sockMap, finished, inflight, escaped, delivered, proc, wfd, client,
                   ncalls, ccall, cret, erred, issued, pipeTo, notExecVars>>

Next ==
    \/ ExecStart
    \/ \E k \in Workers : WorkerCall(k)
    \/ \E k \in Workers : WorkerWrite(k)
    \/ \E k \in Workers : WorkerReceive(k)
    \/ \E k \in Workers : WorkerCloseStreams(k)
    \/ \E k \in Workers : WorkerExit(k)
    \/ \E k \in Workers : WorkerKilled(k)
    \/ \E j \in Workers : StreamEof(j)
    \/ \E j \in Workers : RecvRead(j)
    \/ \E j \in Workers : RecvEof(j)
    \/ DeviceReply
    \/ ExecLoopEnd
    \/ ExecReturn

-----------------------------------------------------------------------------
(* Specification SpecCache: session lookups of one control-plane process.   *)

MaxLookups == 3

DefaultPort == 161
ChColon == 58

\* the settings of the [snmp] section after load (protocol names lower-cased)
Settings(community, auth_protocol, priv_protocol, auth_key, priv_key) ==
    [SNMP_COMMUNITY |-> community, SNMP_AUTH_PROTOCOL |-> auth_protocol,
     SNMP_PRIV_PROTOCOL |-> priv_protocol, SNMP_ENGINE_ID |-> PyNone,
     SNMP_AUTH_KEY |-> auth_key, SNMP_PRIV_KEY |-> priv_key]

ConfigSamples ==
    {Settings(PyText("public"), "none", "none", PyNone, PyNone),
     Settings(PyNone, "md5", "des", PyNone, PyText("k")),
     Settings(PyNone, "sha", "rc4", PyText("k"), PyNone),
     Settings(PyText("public"), "md4", "des", PyNone, PyNone)}

\* the runner settings _get_snmp_auth reads
Runner(become, become_method, become_user, become_pass) ==
    [become |-> become, become_method |-> become_method,
     become_user |-> become_user, become_pass |-> become_pass]

RunnerSamples ==
    {Runner(FALSE, "sudo", PyNone, PyNone),
     Runner(TRUE, "snmp", PyText("admin"), PyText("pw")),
     Runner(TRUE, "snmp", PyNone, PyText("pw"))}

AnsibleError(msg, arg) == Raise("AnsibleError", msg, arg)

\* _get_snmp_auth taking a protocol name it does not know for no protocol
GetSnmpAuthAnyProtocol(runner, cfg) ==
    IF ~runner.become \/ runner.become_method # "snmp"
    THEN IF cfg.SNMP_COMMUNITY = PyNone
         THEN AnsibleError("Missing SNMP community or become_method is not snmp", "")
         ELSE [cls |-> "CommunityData", value |-> cfg.SNMP_COMMUNITY]
    ELSE IF runner.become_user = PyNone
    THEN AnsibleError("Missing become_user setting", "")
    ELSE [cls |-> "UsmUserData",
          value |-> [userName |-> runner.become_user,
                     authProtocol |-> cfg.SNMP_AUTH_PROTOCOL, authKey |-> cfg.SNMP_AUTH_KEY,
                     privProtocol |-> cfg.SNMP_PRIV_PROTOCOL, privKey |-> cfg.SNMP_PRIV_KEY,
                     contextEngineId |-> cfg.SNMP_ENGINE_ID]]

\* Connection._get_snmp_auth
GetSnmpAuth(runner, cfg) ==
    IF ~runner.become \/ runner.become_method # "snmp"
    THEN IF cfg.SNMP_COMMUNITY = PyNone
         THEN AnsibleError("Missing SNMP community or become_method is not snmp", "")
         ELSE [cls |-> "CommunityData", value |-> cfg.SNMP_COMMUNITY]
    ELSE IF runner.become_user = PyNone
    THEN AnsibleError("Missing become_user setting", "")
    ELSE IF cfg.SNMP_AUTH_PROTOCOL \notin {"md5", "sha", "none"}
    THEN AnsibleError("Unsupported SNMP authentication protocol: %s", cfg.SNMP_AUTH_PROTOCOL)
    ELSE IF cfg.SNMP_PRIV_PROTOCOL \notin {"des", "aes", "none"}
    THEN AnsibleError("Unsupported SNMP privacy protocol: %s", cfg.SNMP_PRIV_PROTOCOL)
    ELSE LET auth_key == IF cfg.SNMP_AUTH_PROTOCOL = "none" THEN PyNone
                         ELSE IF cfg.SNMP_AUTH_KEY = PyNone THEN runner.become_pass
                         ELSE cfg.SNMP_AUTH_KEY
             priv_key == IF cfg.SNMP_PRIV_PROTOCOL = "none" THEN PyNone
                         ELSE IF cfg.SNMP_PRIV_KEY = PyNone THEN runner.become_pass
                         ELSE cfg.SNMP_PRIV_KEY
         IN  [cls |-> "UsmUserData",
              value |-> [userName |-> runner.become_user,
                         authProtocol |-> cfg.SNMP_AUTH_PROTOCOL, authKey |-> auth_key,
                         privProtocol |-> cfg.SNMP_PRIV_PROTOCOL, privKey |-> priv_key,
                         contextEngineId |-> cfg.SNMP_ENGINE_ID]]

\* Connection.__init__: port 0 stands for a port that is None or 0
Connection(runner, host, port) ==
    [runner |-> runner, host |-> host, port |-> IF port # 0 THEN port ELSE DefaultPort]

\* '%s:%d' % (self.host, self.port)
CacheKey(self) == self.host \o <<ChColon>> \o NatToStr(self.port)

\* _SnmpConnection.__init__: the session, or the transport's exception when the
\* address does not resolve
SnmpConnection(serial, host, port, auth, resolves) ==
    IF resolves
    THEN [cls |-> "_SnmpConnection",
          value |-> [serial |-> serial, host |-> host, port |-> port, auth |-> auth]]
    ELSE Raise("PySnmpError", "Bad transport address", "")

\* what a lookup does: what it returns or raises, the cache after it, and the
\* sessions it created
Looked(ret, c, new) == [ret |-> ret, cache |-> c, new |-> new]

\* _get_snmp_connection without the cache test
GetSnmpConnectionAlwaysNew(self, c, cfg, serial, resolves) ==
    LET key == CacheKey(self)
        auth == GetSnmpAuth(self.runner, cfg)
        conn == SnmpConnection(serial, self.host, self.port, auth, resolves)
    IN  IF IsRaise(auth) THEN Looked(auth, c, <<>>)
        ELSE IF IsRaise(conn) THEN Looked(conn, c, <<>>)
        ELSE Looked(conn, DictPut(c, key, conn), <<conn>>)

\* Connection._get_snmp_connection
GetSnmpConnection(self, c, cfg, serial, resolves) ==
    LET key == CacheKey(self)
        auth == GetSnmpAuth(self.runner, cfg)
        conn == SnmpConnection(serial, self.host, self.port, auth, resolves)
    IN  IF key \in DOMAIN c THEN Looked(c[key], c, <<>>)
        ELSE IF IsRaise(auth) THEN Looked(auth, c, <<>>)
        ELSE IF IsRaise(conn) THEN Looked(conn, c, <<>>)
        ELSE Looked(conn, DictPut(c, key, conn), <<conn>>)

\* "sw1", "sw2"
HostSamples == {<<115, 119, 49>>, <<115, 119, 50>>}
PortSamples == {0, DefaultPort, DefaultPort + 1}

CacheInit ==
    /\ config \in ConfigSamples
    /\ cache = EmptyDict
    /\ made = <<>>
    /\ got = <<>>
    /\ everCached = {}

CacheIdle ==
    /\ config = PyNone
    /\ cache = EmptyDict
    /\ made = <<>>
    /\ got = <<>>
    /\ everCached = {}

\* one lookup, by the Connection of some task
Lookup ==
    /\ Len(got) < MaxLookups
    /\ \E runner \in RunnerSamples, host \in HostSamples, port \in PortSamples,
          resolves \in BOOLEAN :
        \E self \in {Connection(runner, host, port)} :
        \E r \in {GetSnmpConnection(self, cache, config, Len(made) + 1, resolves)} :
            /\ cache' = r.cache
            /\ made' = made \o r.new
            /\ got' = Append(got, [key |-> CacheKey(self), runner |-> runner, ret |-> r.ret])
            /\ everCached' = everCached \cup {<<k, r.cache[k]>> : k \in DOMAIN r.cache}
    /\ UNCHANGED <<config, notCacheVars>>

\* exec_command up to its loop, by the Connection of some task: the pipes and
\* Popen, then _get_snmp_connection; its exception leaves exec_command there,
\* otherwise the dispatchers are built on the session's socket map
ExecCommandStart ==
    /\ cur < NWorkers
    /\ cur > 0 => epc[cur] \in {"returned", "refused"}
    /\ \E runner \in RunnerSamples, host \in HostSamples, port \in PortSamples,
          resolves \in BOOLEAN :
        \E self \in {Connection(runner, host, port)}, k \in {cur + 1} :
        \E r \in {GetSnmpConnection(self, cache, config, Len(made) + 1, resolves)} :
            /\ cur' = k
            /\ proc' = [proc EXCEPT ![k] = "running"]
            /\ wfd' = [wfd EXCEPT ![k] = {"stdout", "stderr"}]
            /\ cache' = r.cache
            /\ made' = made \o r.new
            /\ got' = Append(got, [key |-> CacheKey(self), runner |-> runner, ret |-> r.ret])
            /\ everCached' = everCached \cup {<<c, r.cache[c]>> : c \in DOMAIN r.cache}
            /\ IF IsRaise(r.ret)
               THEN /\ epc' = [epc EXCEPT ![k] = "refused"]
                    /\ escaped' = [escaped EXCEPT ![k] = r.ret]
                    /\ fds' = fds \cup PipeFds(k) \cup PopenFds(k)
                    /\ UNCHANGED sockMap
               ELSE /\ epc' = [epc EXCEPT ![k] = "loop"]
                    /\ fds' = fds \cup PipeFds(k) \cup PopenFds(k) \cup DispatcherFds(k)
                    /\ sockMap' = sockMap \cup Dispatchers(k)
                    /\ UNCHANGED escaped
    /\ UNCHANGED <<finished, inflight, delivered, client, ncalls, ccall, cret, erred,
                   issued, pipeTo, pipeFrom, config, codecVars, walkVars, getVars,
                   convVars, loopVars>>

\* exec_command from its first statement to its return, for workers that make
\* no call
StartNext ==
    \/ ExecCommandStart
    \/ \E k \in Workers : WorkerCloseStreams(k)
    \/ \E k \in Workers : WorkerExit(k)
    \/ \E j \in Workers : StreamEof(j)
    \/ \E j \in Workers : RecvEof(j)
    \/ ExecLoopEnd
    \/ ExecReturn

-----------------------------------------------------------------------------
(* The modules of library/, run by a worker against a device.  A module is  *)
(* a function of its parameters and of what the device holds; what it does *)
(* is the calls it makes on its SnmpClient and the result it exits with.    *)

\* Python's truth of a parameter: None, the empty string and 0 are false
Truth(v) ==
    IF v.cls = "str" THEN v.value # <<>>
    ELSE IF v.cls = "int" THEN DigitsToNat(v.value) # 0
    ELSE v.cls # "NoneType"

\* a call on the SnmpClient
ClientCall(method, args) == [method |-> method, args |-> args]

\* module.exit_json(changed=...) and module.fail_json(msg=...)
ExitJson(changed) == [failed |-> FALSE, changed |-> changed, msg |-> ""]
FailJson(msg) == [failed |-> TRUE, changed |-> FALSE, msg |-> msg]

\* what a run of a module did
Ran(calls, exit) == [calls |-> calls, exit |-> exit]

OID_IF_NAME == "1.3.6.1.2.1.31.1.1.1.1"
OID_DOT1D_BASE_PORT_IF_INDEX == "1.3.6.1.2.1.17.1.4.1.2"
OID_DOT1Q_GVRP_STATUS == "1.3.6.1.2.1.17.7.1.1.5.0"
OID_DOT1Q_PORT_GVRP_STATUS == "1.3.6.1.2.1.17.7.1.4.5.1.4"
SNMP_ENABLED == 1
SNMP_DISABLED == 2

\* OID + '.' + str(index)
OidAt(oid, index) == <<oid, index>>

\* the bridge the module talks to: its interfaces (ifIndex -> ifName, "gi1" and
\* "gi2"), its bridge ports (port -> ifIndex), its VLANs and its GVRP switches
BridgeIfNames == (1 :> <<103, 105, 49>>) @@ (2 :> <<103, 105, 50>>)
BridgePorts == (1 :> 2) @@ (2 :> 1)

\* BOOLEANS_TRUE of module_utils.basic, for the values sampled: "on"
ModuleBoolean(v) == v.value = <<111, 110>>

\* str(port): the parameter is text already, a looked-up port is a number
StrOf(v) == IF v.cls = "int" THEN v.value ELSE v.value

\* ifindex_to_port: the walk, and the first port whose ifIndex is the one
\* asked for; a number never equals a parameter given as text
IfindexToPort(ifindex) ==
    LET hits == {port \in DOMAIN BridgePorts :
                    ifindex.cls = "int" /\ BridgePorts[port] = DigitsToNat(ifindex.value)}
    IN  [calls |-> <<ClientCall("walk", <<OID_DOT1D_BASE_PORT_IF_INDEX>>)>>,
         ret |-> IF hits = {} THEN PyNone
                 ELSE PyInt(NatToStr(CHOOSE port \in hits : TRUE))]

\* ifname_to_ifindex
IfnameToIfindex(ifname) ==
    LET hits == {i \in DOMAIN BridgeIfNames : BridgeIfNames[i] = ifname.value}
    IN  [calls |-> <<ClientCall("walk", <<OID_IF_NAME>>)>>,
         ret |-> IF hits = {} THEN PyNone
                 ELSE PyInt(NatToStr(CHOOSE i \in hits : TRUE))]

\* ifname_to_port
IfnameToPort(ifname) ==
    LET found == IfnameToIfindex(ifname)
        port == IfindexToPort(found.ret)
    IN  IF Truth(found.ret)
        THEN [calls |-> found.calls \o port.calls, ret |-> port.ret]
        ELSE [calls |-> found.calls, ret |-> PyNone]

\* main of snmp_vlan from the get on: the names asked for, the var-binds
\* collected, the exit; status is what the bridge holds under name
VlanApply(params, status, check_mode, calls, name) ==
    LET var_names == IF Truth(params.gvrp) THEN <<name>> ELSE <<>>
        asked == calls \o <<ClientCall("get", var_names)>>
        gvrp == ModuleBoolean(params.gvrp)
        var_binds ==
            IF ~Truth(params.gvrp) THEN <<>>
            ELSE IF gvrp /\ status # SNMP_ENABLED
            THEN <<<<name, Integer32(PyInt(NatToStr(SNMP_ENABLED)))>>>>
            ELSE IF ~gvrp /\ status # SNMP_DISABLED
            THEN <<<<name, Integer32(PyInt(NatToStr(SNMP_DISABLED)))>>>>
            ELSE <<>>
    IN  IF var_binds = <<>> THEN Ran(asked, ExitJson(FALSE))
        ELSE IF check_mode THEN Ran(asked, ExitJson(TRUE))
        ELSE Ran(asked \o <<ClientCall("set", var_binds)>>, ExitJson(TRUE))

\* main of snmp_vlan
SnmpVlanMain(params, dev, check_mode) ==
    LET has_selector == Truth(params.ifname) \/ Truth(params.ifindex) \/ Truth(params.port)
        looked == IF Truth(params.port) THEN [calls |-> <<>>, ret |-> params.port]
                  ELSE IF Truth(params.ifindex) THEN IfindexToPort(params.ifindex)
                  ELSE IfnameToPort(params.ifname)
    IN  IF ~has_selector
        THEN VlanApply(params, dev.gvrp, check_mode, <<>>, OID_DOT1Q_GVRP_STATUS)
        ELSE IF ~Truth(looked.ret)
        THEN Ran(looked.calls, FailJson("No such port/interface"))
        ELSE VlanApply(params, dev.portGvrp, check_mode, looked.calls,
                       OidAt(OID_DOT1Q_PORT_GVRP_STATUS, StrOf(looked.ret)))

OID_IF_ADMIN_STATUS == "1.3.6.1.2.1.2.2.1.7"
OID_IF_LINK_UP_DOWN_TRAP_ENABLE == "1.3.6.1.2.1.31.1.1.1.14"
OID_IF_PROMISCUOUS_MODE == "1.3.6.1.2.1.31.1.1.1.16"
OID_IF_ALIAS == "1.3.6.1.2.1.31.1.1.1.18"
IF_ADMIN_STATUS_UP == 1
IF_ADMIN_STATUS_DOWN == 2
IF_LINK_UP_DOWN_TRAP_ENABLE_ENABLED == 1
IF_LINK_UP_DOWN_TRAP_ENABLE_DISABLED == 2
SNMP_TRUE == 1
SNMP_FALSE == 2

\* snmp.Integer32(n) for a number of the module
Int32Of(n) == Integer32(PyInt(NatToStr(n)))

\* get_ifindex of snmp_interface: the walk of ifName, and the index of an
\* interface of that name
GetIfindex(name) ==
    LET hits == {i \in DOMAIN BridgeIfNames : name.cls = "str" /\ BridgeIfNames[i] = name.value}
    IN  [calls |-> <<ClientCall("walk", <<OID_IF_NAME>>)>>,
         ret |-> IF hits = {} THEN PyNone
                 ELSE PyStr(NatToStr(CHOOSE i \in hits : TRUE))]

\* the var-binds main of snmp_interface collects for interface index: dev is
\* the row of the interface as the get returns it
InterfaceVarBinds(params, dev, index) ==
    (IF Truth(params.alias) /\ dev.alias # params.alias.value
     THEN <<<<OidAt(OID_IF_ALIAS, index), OctetString(params.alias)>>>> ELSE <<>>)
    \o (IF params.status = PyStr(<<117, 112>>) /\ dev.admin # IF_ADMIN_STATUS_UP
        THEN <<<<OidAt(OID_IF_ADMIN_STATUS, index), Int32Of(IF_ADMIN_STATUS_UP)>>>>
        ELSE IF params.status = PyStr(<<100, 111, 119, 110>>) /\ dev.admin # IF_ADMIN_STATUS_DOWN
        THEN <<<<OidAt(OID_IF_ADMIN_STATUS, index), Int32Of(IF_ADMIN_STATUS_DOWN)>>>>
        ELSE <<>>)
    \o (IF ~Truth(params.traps) THEN <<>>
        ELSE IF ModuleBoolean(params.traps) /\ dev.traps # IF_LINK_UP_DOWN_TRAP_ENABLE_ENABLED
        THEN <<<<OidAt(OID_IF_LINK_UP_DOWN_TRAP_ENABLE, index),
                 Int32Of(IF_LINK_UP_DOWN_TRAP_ENABLE_ENABLED)>>>>
        ELSE IF ~ModuleBoolean(params.traps) /\ dev.traps # IF_LINK_UP_DOWN_TRAP_ENABLE_DISABLED
        THEN <<<<OidAt(OID_IF_LINK_UP_DOWN_TRAP_ENABLE, index),
                 Int32Of(IF_LINK_UP_DOWN_TRAP_ENABLE_DISABLED)>>>>
        ELSE <<>>)
    \o (IF ~Truth(params.promisc) THEN <<>>
        ELSE IF ModuleBoolean(params.promisc) /\ dev.promisc # SNMP_TRUE
        THEN <<<<OidAt(OID_IF_PROMISCUOUS_MODE, index), Int32Of(SNMP_TRUE)>>>>
        ELSE IF ~ModuleBoolean(params.promisc) /\ dev.promisc # SNMP_FALSE
        THEN <<<<OidAt(OID_IF_PROMISCUOUS_MODE, index), Int32Of(SNMP_FALSE)>>>>
        ELSE <<>>)

\* the names main of snmp_interface reads: those of the attributes given
InterfaceVarNames(params, index) ==
    (IF params.alias # PyNone THEN <<OidAt(OID_IF_ALIAS, index)>> ELSE <<>>)
    \o (IF params.status # PyNone THEN <<OidAt(OID_IF_ADMIN_STATUS, index)>> ELSE <<>>)
    \o (IF params.traps # PyNone
        THEN <<OidAt(OID_IF_LINK_UP_DOWN_TRAP_ENABLE, index)>> ELSE <<>>)
    \o (IF params.promisc # PyNone
        THEN <<OidAt(OID_IF_PROMISCUOUS_MODE, index)>> ELSE <<>>)

\* main of snmp_interface that sets every attribute it is given
SnmpInterfaceMainSetsAll(params, dev, check_mode) ==
    LET looked == IF Truth(params.index) THEN [calls |-> <<>>, ret |-> params.index]
                  ELSE GetIfindex(params.name)
        index == StrOf(looked.ret)
        var_binds == InterfaceVarBinds(params, [alias |-> <<>>, admin |-> 0, traps |-> 0,
                                                promisc |-> 0], index)
        asked == looked.calls \o <<ClientCall("get", InterfaceVarNames(params, index))>>
    IN  IF ~Truth(looked.ret) THEN Ran(looked.calls, FailJson("No such interface"))
        ELSE IF var_binds = <<>> THEN Ran(asked, ExitJson(FALSE))
        ELSE IF check_mode THEN Ran(asked, ExitJson(TRUE))
        ELSE Ran(asked \o <<ClientCall("set", var_binds)>>, ExitJson(TRUE))

\* main of snmp_interface; dev.refuses: the device answers the Set with an
\* error status, which client.set raises as SnmpError
SnmpInterfaceMain(params, dev, check_mode) ==
    LET looked == IF Truth(params.index) THEN [calls |-> <<>>, ret |-> params.index]
                  ELSE GetIfindex(params.name)
        index == StrOf(looked.ret)
        var_binds == InterfaceVarBinds(params, dev, index)
        asked == looked.calls \o <<ClientCall("get", InterfaceVarNames(params, index))>>
    IN  IF ~Truth(looked.ret) THEN Ran(looked.calls, FailJson("No such interface"))
        ELSE IF var_binds = <<>> THEN Ran(asked, ExitJson(FALSE))
        ELSE IF check_mode THEN Ran(asked, ExitJson(TRUE))
        ELSE IF dev.refuses
        THEN Ran(asked \o <<ClientCall("set", var_binds)>>, FailJson("genErr"))
        ELSE Ran(asked \o <<ClientCall("set", var_binds)>>, ExitJson(TRUE))

\* the row of the interface once the device has done the Set of var_binds
InterfaceAfter(dev, var_binds) ==
    LET set(oid) == {i \in 1..Len(var_binds) : var_binds[i][1][1] = oid}
        text(oid, old) == IF set(oid) = {} THEN old
                          ELSE var_binds[CHOOSE i \in set(oid) : TRUE][2].value.value
        number(oid, old) == IF set(oid) = {} THEN old
                            ELSE DigitsToNat(var_binds[CHOOSE i \in set(oid) : TRUE][2].value.value)
    IN  [alias |-> text(OID_IF_ALIAS, dev.alias),
         admin |-> number(OID_IF_ADMIN_STATUS, dev.admin),
         traps |-> number(OID_IF_LINK_UP_DOWN_TRAP_ENABLE, dev.traps),
         promisc |-> number(OID_IF_PROMISCUOUS_MODE, dev.promisc),
         refuses |-> dev.refuses]

OID_RND_ACTIVE_SOFTWARE_FILE == "1.3.6.1.4.1.9.6.1.101.2.13.1.1.2"
OID_RND_ACTIVE_SOFTWARE_FILE_AFTER_RESET == "1.3.6.1.4.1.9.6.1.101.2.13.1.1.3"
OID_RND_IMAGE1_VERSION == "1.3.6.1.4.1.9.6.1.101.2.16.1.1.4"
OID_RND_IMAGE2_VERSION == "1.3.6.1.4.1.9.6.1.101.2.16.1.1.5"
IMAGE1 == 1
IMAGE2 == 2

\* main of ciscosb_firmware that makes its set in check mode too
CiscosbFirmwareMainSetsAnyway(params, dev, check_mode) ==
    LET after_reset == OidAt(OID_RND_ACTIVE_SOFTWARE_FILE_AFTER_RESET, params.unit)
        asked == <<ClientCall("get", <<OidAt(OID_RND_ACTIVE_SOFTWARE_FILE, params.unit),
                                       after_reset,
                                       OidAt(OID_RND_IMAGE1_VERSION, params.unit),
                                       OidAt(OID_RND_IMAGE2_VERSION, params.unit)>>)>>
        wanted == IF Truth(params.image) THEN DigitsToNat(params.image.value)
                  ELSE IF ~Truth(params.version) THEN dev.reset
                  ELSE IF dev.version1 = params.version.value THEN IMAGE1
                  ELSE IF dev.version2 = params.version.value THEN IMAGE2
                  ELSE 0
        var_binds == IF wanted # dev.reset THEN <<<<after_reset, Int32Of(wanted)>>>> ELSE <<>>
    IN  IF wanted = 0 THEN Ran(asked, FailJson("No firmware with that version found"))
        ELSE IF dev.refuses
        THEN Ran(asked \o <<ClientCall("set", var_binds)>>, FailJson("genErr"))
        ELSE Ran(asked \o <<ClientCall("set", var_binds)>>, ExitJson(var_binds # <<>>))

\* main of ciscosb_firmware (the facts it gathers are left out: they are read,
\* never written); wanted is the image var_binds names, the one in use after
\* reset when nothing is to change, 0 when no image has the version
CiscosbFirmwareMain(params, dev, check_mode) ==
    LET after_reset == OidAt(OID_RND_ACTIVE_SOFTWARE_FILE_AFTER_RESET, params.unit)
        asked == <<ClientCall("get", <<OidAt(OID_RND_ACTIVE_SOFTWARE_FILE, params.unit),
                                       after_reset,
                                       OidAt(OID_RND_IMAGE1_VERSION, params.unit),
                                       OidAt(OID_RND_IMAGE2_VERSION, params.unit)>>)>>
        wanted == IF Truth(params.image) THEN DigitsToNat(params.image.value)
                  ELSE IF ~Truth(params.version) THEN dev.reset
                  ELSE IF dev.version1 = params.version.value THEN IMAGE1
                  ELSE IF dev.version2 = params.version.value THEN IMAGE2
                  ELSE 0
        var_binds == IF wanted # dev.reset THEN <<<<after_reset, Int32Of(wanted)>>>> ELSE <<>>
    IN  IF wanted = 0 THEN Ran(asked, FailJson("No firmware with that version found"))
        ELSE IF check_mode THEN Ran(asked, ExitJson(var_binds # <<>>))
        ELSE IF dev.refuses
        THEN Ran(asked \o <<ClientCall("set", var_binds)>>, FailJson("genErr"))
        ELSE Ran(asked \o <<ClientCall("set", var_binds)>>, ExitJson(var_binds # <<>>))

OID_RL_COPY_ENTRY == "1.3.6.1.4.1.9.6.1.101.87.2.1"
COPY_ROW_STATUS == 17
COPY_HISTORY_INDEX == 18
OID_RL_COPY_HISTORY_OPERATION_STATE == "1.3.6.1.4.1.9.6.1.101.87.4.1.14"
OID_RL_COPY_HISTORY_ROW_STATUS == "1.3.6.1.4.1.9.6.1.101.87.4.1.17"
OID_RL_COPY_HISTORY_ERROR_MESSAGE == "1.3.6.1.4.1.9.6.1.101.87.4.1.18"
LOCATION_LOCAL == 1
LOCATION_ANOTHER_UNIT == 2
LOCATION_TFTP == 3
LOCATION_SCP == 5
LOCATION_HTTP == 7
LOCATION_HTTPS == 8
OFFSET_LOCATION == 0
OFFSET_IP_ADDRESS == 1
OFFSET_UNIT_NUMBER == 2
OFFSET_FILE_NAME == 3
OFFSET_FILE_TYPE == 4
ROW_STATUS_CREATE_AND_GO == 4
ROW_STATUS_DESTROY == 6
STATE_UPLOAD_IN_PROGRESS == 1
STATE_DOWNLOAD_IN_PROGRESS == 2
STATE_COPY_FAILED == 3
STATE_COPY_TIMEDOUT == 4
STATE_COPY_FINISHED == 5

\* path_to_file_type: the file type of a local path, 0 for None
PathToFileType(path) ==
    CASE path = "/running-config" -> 2
      [] path = "/startup-config" -> 3
      [] path = "/backup-config" -> 4
      [] path = "/image" -> 8
      [] path = "/boot" -> 9
      [] path = "/logging" -> 11
      [] path = "/mirror-config" -> 12
      [] OTHER -> 0

\* OID_RL_COPY_ENTRY + '.' + str(offset + column) + '.' + str(copy_index)
CopyColumn(column, copy_index) == <<OID_RL_COPY_ENTRY, column, copy_index>>

\* what url_to_var_binds returns, the exception it raises instead, and
\* var_binds as it leaves it
UrlDone(ret, raised, var_binds) == [ret |-> ret, raised |-> raised, var_binds |-> var_binds]

\* url_to_var_binds, for the url as urlparse splits it
UrlToVarBinds(url, copy_index, offset, var_binds) ==
    LET oid_copy_location == CopyColumn(offset + OFFSET_LOCATION, copy_index)
        oid_copy_ip_address == CopyColumn(offset + OFFSET_IP_ADDRESS, copy_index)
        oid_copy_unit_number == CopyColumn(offset + OFFSET_UNIT_NUMBER, copy_index)
        oid_copy_file_name == CopyColumn(offset + OFFSET_FILE_NAME, copy_index)
        oid_copy_file_type == CopyColumn(offset + OFFSET_FILE_TYPE, copy_index)
        file_type == PathToFileType(url.path)
        unit == ParseInt(url.netloc)
    IN  IF url.scheme \in {"local", "another-unit"}
        THEN IF file_type = 0 THEN UrlDone(FALSE, PyNone, var_binds)
             ELSE IF url.scheme = "local"
             THEN UrlDone(TRUE, PyNone,
                          DictPut(DictPut(var_binds, oid_copy_location, Int32Of(LOCATION_LOCAL)),
                                  oid_copy_file_type, Int32Of(file_type)))
             ELSE IF IsRaise(unit)
             THEN UrlDone(FALSE, unit, DictPut(var_binds, oid_copy_location, Int32Of(LOCATION_LOCAL)))
             ELSE UrlDone(TRUE, PyNone,
                          DictPut(DictPut(DictPut(var_binds, oid_copy_location,
                                                  Int32Of(LOCATION_LOCAL)),
                                          oid_copy_unit_number, Integer32(unit)),
                                  oid_copy_file_type, Int32Of(file_type)))
        ELSE IF url.scheme \in {"tftp", "scp", "http", "https"}
        THEN UrlDone(TRUE, PyNone,
                     DictPut(DictPut(DictPut(var_binds, oid_copy_location,
                                 Int32Of(IF url.scheme = "tftp" THEN LOCATION_TFTP
                                         ELSE IF url.scheme = "scp" THEN LOCATION_SCP
                                         ELSE IF url.scheme = "http" THEN LOCATION_HTTP
                                         ELSE LOCATION_HTTPS)),
                             oid_copy_ip_address, IpAddress(PyStr(url.netloc))),
                             oid_copy_file_name, OctetString(PyText(url.path))))
        ELSE UrlDone(FALSE, PyNone, var_binds)

\* the loop of main of ciscosb_copy from the i-th answer of the device on: the
\* gets it makes and the state that ends it, 0 when the get raises SnmpError
\* (the answers end with one that ends the loop)
RECURSIVE CopyPoll(_, _, _)
CopyPoll(answers, i, copy_history_index) ==
    LET asked == <<ClientCall("get", <<OidAt(OID_RL_COPY_HISTORY_OPERATION_STATE,
                                             NatToStr(copy_history_index))>>)>>
    IN  IF i < Len(answers)
           /\ answers[i] \in {STATE_UPLOAD_IN_PROGRESS, STATE_DOWNLOAD_IN_PROGRESS}
        THEN LET rest == CopyPoll(answers, i + 1, copy_history_index)
             IN  [calls |-> asked \o rest.calls, state |-> rest.state]
        ELSE [calls |-> asked, state |-> answers[i]]

\* main of ciscosb_copy.  dev is what the device does: whether it accepts the
\* Set that creates the row, its answers to the gets of the operation state,
\* its answer to the get of the error message, whether it accepts the Set that
\* destroys the history row.  An exception nothing catches fails the run.
CiscosbCopyMain(params, dev) ==
    LET copy_index == params.copy_index
        src == UrlToVarBinds(params.src, copy_index, 3, EmptyDict)
        dest == UrlToVarBinds(params.dest, copy_index, 8, src.var_binds)
        create == ClientCall("set",
                      DictPut(DictPut(dest.var_binds,
                                      CopyColumn(COPY_ROW_STATUS, copy_index),
                                      Int32Of(ROW_STATUS_CREATE_AND_GO)),
                              CopyColumn(COPY_HISTORY_INDEX, copy_index), Int32Of(copy_index)))
        polled == CopyPoll(dev.polls, 1, copy_index)
        state == polled.state
        told == IF state = STATE_COPY_FINISHED THEN <<>>
                ELSE <<ClientCall("get", <<OidAt(OID_RL_COPY_HISTORY_ERROR_MESSAGE,
                                                 NatToStr(copy_index))>>)>>
        error_message == IF IsRaise(dev.message) THEN PyNone ELSE dev.message
        destroy == ClientCall("set",
                       [k \in {OidAt(OID_RL_COPY_HISTORY_ROW_STATUS, NatToStr(copy_index))}
                          |-> Int32Of(ROW_STATUS_DESTROY)])
        calls == <<create>> \o polled.calls \o told \o <<destroy>>
    IN  IF IsRaise(src.raised) THEN Ran(<<>>, FailJson("ValueError"))
        ELSE IF ~src.ret THEN Ran(<<>>, FailJson("Invalid source url"))
        ELSE IF IsRaise(dest.raised) THEN Ran(<<>>, FailJson("ValueError"))
        ELSE IF ~dest.ret THEN Ran(<<>>, FailJson("Invalid destination url"))
        ELSE IF ~dev.create THEN Ran(<<create>>, FailJson("genErr"))
        ELSE IF state = 0 THEN Ran(<<create>> \o polled.calls, FailJson("requestTimedOut"))
        ELSE IF ~dev.destroy THEN Ran(calls, FailJson("genErr"))
        ELSE IF state = STATE_COPY_FINISHED THEN Ran(calls, ExitJson(TRUE))
        ELSE IF Truth(error_message) THEN Ran(calls, FailJson(error_message.value))
        ELSE IF state = STATE_COPY_TIMEDOUT THEN Ran(calls, FailJson("Copy timed out"))
        ELSE Ran(calls, FailJson("Copy failed"))

\* cmdgen.UsmUserData(userName, authKey=None, authProtocol=usmNoAuthProtocol,
\* privKey=None, privProtocol=usmNoPrivProtocol): the security level follows
\* from the keys given
UsmUserData(userName, authKey, authProtocol, privKey, privProtocol) ==
    [cls |-> "UsmUserData",
     value |-> [userName |-> userName, authKey |-> authKey, authProtocol |-> authProtocol,
                privKey |-> privKey, privProtocol |-> privProtocol,
                securityLevel |-> IF authKey = PyNone THEN "noAuthNoPriv"
                                  ELSE IF privKey = PyNone THEN "authNoPriv"
                                  ELSE "authPriv"]]

\* snmp_get_auth of snmp_sysinfo: the credential, or the fail_json it exits with
SnmpGetAuth(params) ==
    LET version == IF params.version # PyNone THEN params.version
                   ELSE IF params.username # PyNone THEN PyText("v3")
                   ELSE IF params.community # PyNone THEN PyText("v2c")
                   ELSE PyNone
        auth == IF params.auth = PyText("sha") THEN "usmHMACSHAAuthProtocol"
                ELSE "usmHMACMD5AuthProtocol"
        priv == IF params.priv = PyText("aes") THEN "usmAesCfb128Protocol"
                ELSE "usmDESPrivProtocol"
    IN  IF version \in {PyText("v2c"), PyText("v1")}
        THEN IF params.community = PyNone
             THEN FailJson("Community not set when using SNMP version 1/2c")
             ELSE [cls |-> "CommunityData", value |-> params.community]
        ELSE IF params.username = PyNone
        THEN FailJson("Username not set when using SNMP version 3")
        ELSE IF params.authkey = PyNone
        THEN UsmUserData(params.username, PyNone, "usmNoAuthProtocol",
                         PyNone, "usmNoPrivProtocol")
        ELSE IF params.privkey = PyNone
        THEN UsmUserData(params.username, params.authkey, auth, PyNone, "usmNoPrivProtocol")
        ELSE UsmUserData(params.username, params.authkey, auth, params.privkey, priv)

OID_SYS_DESCR == "1.3.6.1.2.1.1.1.0"
OID_SYS_CONTACT == "1.3.6.1.2.1.1.4.0"
OID_SYS_NAME == "1.3.6.1.2.1.1.5.0"
OID_SYS_LOCATION == "1.3.6.1.2.1.1.6.0"

\* main of snmp_sysinfo from the answer to its get on: dev is the system group
\* as getCmd returns it; the calls are those on the command generator
SnmpSysinfoMain(params, dev, check_mode) ==
    LET snmp_auth == SnmpGetAuth(params)
        get_varbinds ==
            (IF params.descr # PyNone THEN <<OID_SYS_DESCR>> ELSE <<>>)
            \o (IF params.contact # PyNone THEN <<OID_SYS_CONTACT>> ELSE <<>>)
            \o (IF params.name # PyNone THEN <<OID_SYS_NAME>> ELSE <<>>)
            \o (IF params.location # PyNone THEN <<OID_SYS_LOCATION>> ELSE <<>>)
        set_varbinds ==
            (IF params.descr # PyNone /\ dev.descr # params.descr.value
             THEN <<<<OID_SYS_DESCR, params.descr>>>> ELSE <<>>)
            \o (IF params.contact # PyNone /\ dev.contact # params.contact.value
                THEN <<<<OID_SYS_CONTACT, params.contact>>>> ELSE <<>>)
            \o (IF params.name # PyNone /\ dev.name # params.name.value
                THEN <<<<OID_SYS_NAME, params.name>>>> ELSE <<>>)
            \o (IF params.location # PyNone /\ dev.location # params.location.value
                THEN <<<<OID_SYS_LOCATION, params.location>>>> ELSE <<>>)
        asked == <<ClientCall("getCmd", get_varbinds)>>
    IN  IF "failed" \in DOMAIN snmp_auth THEN Ran(<<>>, snmp_auth)
        ELSE IF set_varbinds = <<>> THEN Ran(asked, ExitJson(FALSE))
        ELSE IF check_mode THEN Ran(asked, ExitJson(TRUE))
        ELSE IF dev.refuses
        THEN Ran(asked \o <<ClientCall("setCmd", set_varbinds)>>, FailJson("genErr"))
        ELSE Ran(asked \o <<ClientCall("setCmd", set_varbinds)>>, ExitJson(TRUE))

\* a run of the module of that name
RunModule(module, params, dev, check_mode) ==
    IF module = "snmp_interface" THEN SnmpInterfaceMain(params, dev, check_mode)
    ELSE IF module = "snmp_vlan" THEN SnmpVlanMain(params, dev, check_mode)
    ELSE IF module = "ciscosb_firmware" THEN CiscosbFirmwareMain(params, dev, check_mode)
    ELSE SnmpSysinfoMain(params, dev, check_mode)

-----------------------------------------------------------------------------
(* The two pipes of a broker, byte by byte.                                  *)

\* scaled stand-ins for PIPE_BUF (4096) and the capacity of a pipe (65536)
PipeBuf == 2
PipeCapacity == 4

\* os.write on a non-blocking pipe with room bytes free: a write of at most
\* PIPE_BUF bytes is all or nothing, a longer one takes what fits; with nothing
\* taken it fails with EAGAIN.  The count written, or the exception.
OsWrite(data, room) ==
    IF Len(data) <= room THEN PyInt(NatToStr(Len(data)))
    ELSE IF Len(data) > PipeBuf /\ room > 0 THEN PyInt(NatToStr(room))
    ELSE Raise("OSError", "Resource temporarily unavailable", "")

\* asyncore.dispatcher.send over a file_wrapper: one os.write, its count or its
\* exception (OSError is no socket.error, so nothing is caught)
DispatcherSend(data, room) == OsWrite(data, room)

\* _Server.transmit: self._transmitter.send(json), the count dropped.  What
\* reached the pipe, and the exception if one was raised.
ServerTransmit(json, room) ==
    LET cnt == DispatcherSend(json, room)
    IN  IF IsRaise(cnt) THEN [written |-> <<>>, raised |-> cnt]
        ELSE [written |-> SubSeq(json, 1, DigitsToNat(cnt.value)), raised |-> PyNone]

\* the stand-in for the 1024 bytes handle_read asks recv for
RecvSize == 3

\* _ReceiveDispatcher.__init__, with the lines given to handle_line (in order)
\* and the reads made
ReceiveDispatcher == [_buffer |-> <<>>, _finished |-> FALSE, handled |-> <<>>, reads |-> 0]

\* self._buffer.find('\n'): the index of the first newline, 0 for none
FindNewline(buffer) ==
    IF \E i \in 1..Len(buffer) : buffer[i] = ChNewline
    THEN CHOOSE i \in 1..Len(buffer) :
            buffer[i] = ChNewline /\ \A j \in 1..(i - 1) : buffer[j] # ChNewline
    ELSE 0

\* the loop of handle_read: while the buffer holds a newline, cut the line
\* before it off the buffer and give it to handle_line
RECURSIVE DrainBuffer(_)
DrainBuffer(self) ==
    LET pos == FindNewline(self._buffer)
    IN  IF pos = 0 THEN self
        ELSE DrainBuffer([self EXCEPT
                 !._buffer = SubSeq(self._buffer, pos + 1, Len(self._buffer)),
                 !.handled = Append(self.handled, SubSeq(self._buffer, 1, pos - 1))])

\* handle_read that gives handle_line one line for each read
HandleReadOneLine(self, chunk) ==
    IF chunk = <<>> THEN [self EXCEPT !._finished = TRUE, !.reads = @ + 1]
    ELSE LET buffer == self._buffer \o chunk
             pos == FindNewline(buffer)
         IN  IF pos = 0 THEN [self EXCEPT !._buffer = buffer, !.reads = @ + 1]
             ELSE [self EXCEPT !._buffer = SubSeq(buffer, pos + 1, Len(buffer)),
                               !.handled = Append(@, SubSeq(buffer, 1, pos - 1)),
                               !.reads = @ + 1]

\* _ReceiveDispatcher.handle_read with the chunk recv(1024) returned: the empty
\* chunk (end of stream) sets _finished, any other is appended to the buffer
\* and the complete lines are handled
HandleRead(self, chunk) ==
    IF chunk = <<>> THEN [self EXCEPT !._finished = TRUE, !.reads = @ + 1]
    ELSE DrainBuffer([self EXCEPT !._buffer = @ \o chunk, !.reads = @ + 1])

-----------------------------------------------------------------------------
(* Specification SpecConv: one conversion applied to one input: a frame     *)
(* through unserialize, a message through send, an argument through the     *)
(* constructor of a value class, a device value through the answer to a get, *)
(* a runner and a configuration through credential resolution, the          *)
(* parameters of a module of library/ and a device through its main, a      *)
(* response and a pipe through transmit, a worker's byte stream in chunks  *)
(* through the reads of the receive dispatcher.                              *)

MaxOidChars == 5

\* the tags _object_hook has a branch for, the one value class it has none for,
\* and names that are no value class
KnownTags == {"OctetString", "ObjectIdentifier", "Integer32", "IpAddress", "Gauge32",
              "TimeTicks", "Opaque", "Counter64"}
TagSamples == KnownTags \cup {"Counter32", "Bits", "octetstring", ""}

\* payloads: the number 7, the base64 text "QQ==", the text "42"
PayloadSamples == {Num7, PyStr(<<81, 81, 61, 61>>), PyStr(<<52, 50>>)}

TaggedSamples == {JsonClass(t, d) : t \in TagSamples, d \in PayloadSamples}

\* frames: a tagged value alone, as the result of a response, as a parameter of
\* a request, and inside an Opaque
FrameSamples ==
    TaggedSamples
    \cup {PyDict([jsonrpc |-> PyText("2.0"), result |-> t, id |-> ClientId]) : t \in TaggedSamples}
    \cup {PyDict([jsonrpc |-> PyText("2.0"), method |-> PyText("set"),
                  params |-> PyList(<<PyDict([k \in {NameHeld.value} |-> t])>>),
                  id |-> ClientId]) : t \in TaggedSamples}
    \cup {JsonClass("Opaque", t) : t \in TaggedSamples}

\* the values of the messages sent: byte strings in the variants that carry
\* them, a number, an OID, None
SentValues ==
    {OctetString(PyStr(b)) : b \in ByteStrings(MaxBytes)}
    \cup {IpAddress(PyStr(b)) : b \in ByteStrings(MaxBytes)}
    \cup {Opaque(PyStr(b)) : b \in ByteStrings(MaxBytes)}
    \cup {Integer32(Num7), ObjectIdentifier(TextOid), PyNone}

\* the keyword arguments of send: set requests (one under a name that holds a
\* newline), results, error responses
SendSamples ==
    {[jsonrpc |-> PyText("2.0"), method |-> PyText("set"),
      params |-> PyList(<<PyDict([k \in {name} |-> v])>>), id |-> ClientId] :
        name \in {NameHeld.value, <<49, ChNewline>>}, v \in SentValues}
    \cup {[jsonrpc |-> PyText("2.0"), result |-> PyDict([k \in {NameHeld.value} |-> v]),
           id |-> ClientId] : v \in SentValues}
    \cup {[jsonrpc |-> PyText("2.0"),
           error |-> PyDict([code |-> PyInt(<<ChZero>>), message |-> PyText(m)]),
           id |-> ClientId] : m \in ErrorIndications \cup ErrorStatuses}

\* the texts of up to n characters out of "0", "1", "."
RECURSIVE OidTexts(_)
OidTexts(n) ==
    IF n = 0 THEN {<<>>}
    ELSE OidTexts(n - 1) \cup
         {Append(t, c) : t \in {x \in OidTexts(n - 1) : Len(x) = n - 1},
                         c \in {ChZero, ChZero + 1, ChDot}}

\* the value classes that hold a number
NumericClasses == {"Integer32", "Counter32", "Gauge32", "TimeTicks", "Counter64"}

\* numbers and decimal texts: 7, 4294967295, "7", "42", "007"
NumberSamples ==
    {Num7, NumMax32, PyStr(<<55>>), PyStr(<<52, 50>>), PyStr(<<ChZero, ChZero, 55>>)}

\* a value class and the argument of its constructor
ConstructSamples ==
    {<<"ObjectIdentifier", PyStr(t)>> : t \in OidTexts(MaxOidChars)}
    \cup {<<"ObjectIdentifier", t>> : t \in {TextOid, TextOidZero}}
    \cup {<<c, n>> : c \in NumericClasses, n \in NumberSamples}

\* the values a device answers a Get with: the three absent values and values
\* it holds
AnswerSamples ==
    {NoSuchObject, NoSuchInstance, EndOfMibView,
     Native("rfc1902.Integer32", PyInt(<<53>>)),
     Native("rfc1902.OctetString", PyStr(<<>>)),
     Native("univ.Null", PyStr(<<>>))}

\* the parameters of a get request: up to MaxNames names, one of them written
\* with a leading zero, one twice
RpcGetSamples == NameLists(MaxNames)

\* a value of each variant, and no value
BindingValues ==
    {OctetString(PyStr(<<65>>)), ObjectIdentifier(TextOid), Integer32(Num7),
     Counter32(Num7), Gauge32(NumMax32), TimeTicks(Num7), IpAddress(TextIp),
     Opaque(PyStr(<<65>>)), Counter64(NumPow32), PyNone}

\* the parameter of a set request: bindings under up to two of three names, two
\* of which are spellings of one OID
RpcSetSamples ==
    {PyDict(f) : f \in UNION {[ks -> BindingValues] :
                    ks \in {x \in SUBSET {NameHeld.value, <<49, 46, 51, 46, 48, 49, 46, 49>>,
                                          NameOfBits.value} : Cardinality(x) <= 2}}}

\* native values of types _from_pysnmp has no branch for
ForeignNatives ==
    {Native("rfc1902.Unsigned32", Num7), Native("univ.Null", PyStr(<<>>))}

\* the [snmp] section of the configuration: every combination of a community
\* or none, the protocol names the code knows and one it does not, a key or none
AuthConfigs ==
    {Settings(community, auth_protocol, priv_protocol, auth_key, priv_key) :
        community \in {PyNone, PyText("public")},
        auth_protocol \in {"md5", "sha", "none", "md4"},
        priv_protocol \in {"des", "aes", "none", "rc4"},
        auth_key \in {PyNone, PyText("k")},
        priv_key \in {PyNone, PyText("k")}}

\* the runners: no become, become by another method, become by snmp with and
\* without a user
AuthRunners == RunnerSamples \cup {Runner(TRUE, "sudo", PyText("admin"), PyText("pw"))}

\* what credential resolution is given; dual_key is the entry of that name in
\* the [snmp] section, which no setting is loaded from
AuthSamples ==
    {[runner |-> r, cfg |-> c, dual_key |-> d] :
        r \in AuthRunners, c \in AuthConfigs, d \in BOOLEAN}

\* the parameters of snmp_vlan: none or one value each ("gi1" and a name the
\* bridge has not; ifindex as text and as a number), the VLAN 200
VlanParams ==
    {[ifname |-> ifname, ifindex |-> ifindex, port |-> port, gvrp |-> gvrp,
      vlan |-> vlan, state |-> state] :
        ifname \in {PyNone, PyStr(<<103, 105, 49>>), PyStr(<<103, 105, 57>>)},
        ifindex \in {PyNone, PyStr(<<50>>), PyInt(<<50>>)},
        port \in {PyNone, PyStr(<<49>>)},
        gvrp \in {PyNone, PyStr(<<111, 110>>), PyStr(<<111, 102, 102>>)},
        vlan \in {PyNone, PyStr(<<50, 48, 48>>)},
        state \in {PyNone, PyText("present"), PyText("absent")}}

\* the bridge: the VLANs it has, its global GVRP switch, that of its ports
VlanDevices ==
    {[vlans |-> vlans, gvrp |-> g, portGvrp |-> p] :
        vlans \in SUBSET {<<50, 48, 48>>}, g \in {SNMP_ENABLED, SNMP_DISABLED},
        p \in {SNMP_ENABLED, SNMP_DISABLED}}

VlanSamples ==
    {[params |-> params, dev |-> dev, check_mode |-> check_mode] :
        params \in VlanParams, dev \in VlanDevices, check_mode \in BOOLEAN}

\* the parameters of snmp_sysinfo that pass AnsibleModule's checks: not both a
\* community and a user name, one of version, community and user name
SysinfoParams ==
    {p \in [version : {PyNone, PyText("v1"), PyText("v2c"), PyText("v3")},
            community : {PyNone, PyText("public")},
            username : {PyNone, PyText("admin")},
            auth : {PyText("md5"), PyText("sha")},
            priv : {PyText("des"), PyText("aes")},
            authkey : {PyNone, PyText("a")},
            privkey : {PyNone, PyText("p")}] :
        /\ p.community = PyNone \/ p.username = PyNone
        /\ p.version # PyNone \/ p.community # PyNone \/ p.username # PyNone}

\* the parameters of snmp_interface that pass AnsibleModule's checks: an index
\* or a name ("gi1", "gi9"), and one attribute at least; the alias "", "a", "b",
\* the status "up", "down", the switches "on", "off"
InterfaceParams ==
    {p \in [name : {PyNone, PyStr(<<103, 105, 49>>), PyStr(<<103, 105, 57>>)},
            index : {PyNone, PyStr(<<49>>)},
            alias : {PyNone, PyStr(<<>>), PyStr(<<97>>), PyStr(<<98>>)},
            status : {PyNone, PyStr(<<117, 112>>), PyStr(<<100, 111, 119, 110>>)},
            traps : {PyNone, PyStr(<<111, 110>>), PyStr(<<111, 102, 102>>)},
            promisc : {PyNone, PyStr(<<111, 110>>)}] :
        /\ (p.name = PyNone) # (p.index = PyNone)
        /\ p.name # PyNone => p.status = PyNone /\ p.traps = PyNone
        /\ p.alias # PyNone \/ p.status # PyNone \/ p.traps # PyNone \/ p.promisc # PyNone}

\* the row of the interface: its alias ("" or "a"), its switches, and whether
\* the device refuses a Set
InterfaceDevices ==
    [alias : {<<>>, <<97>>},
     admin : {IF_ADMIN_STATUS_UP, IF_ADMIN_STATUS_DOWN, 3},
     traps : {IF_LINK_UP_DOWN_TRAP_ENABLE_ENABLED, IF_LINK_UP_DOWN_TRAP_ENABLE_DISABLED},
     promisc : {SNMP_TRUE, SNMP_FALSE},
     refuses : BOOLEAN]

\* the parameters of ciscosb_firmware: an image, a version ("1.0", "2.0",
\* "9.9"), or the facts alone, for unit 1
FirmwareParams ==
    {p \in [version : {PyNone, PyStr(<<49, 46, 48>>), PyStr(<<50, 46, 48>>),
                       PyStr(<<57, 46, 57>>)},
            image : {PyNone, PyStr(<<49>>), PyStr(<<50>>)},
            gather_facts : BOOLEAN,
            unit : {<<49>>}] :
        /\ p.version = PyNone \/ p.image = PyNone
        /\ p.version # PyNone \/ p.image # PyNone \/ p.gather_facts}

\* the switch: the image in use, the one in use after reset, the versions of
\* the two images
FirmwareDevices ==
    [active : {IMAGE1, IMAGE2}, reset : {IMAGE1, IMAGE2},
     version1 : {<<49, 46, 48>>}, version2 : {<<49, 46, 48>>, <<50, 46, 48>>},
     refuses : BOOLEAN]

\* the parameters of snmp_sysinfo: a community, a user, or a version alone, and
\* one value to set at least
SysinfoMainParams ==
    {p \in [version : {PyNone, PyText("v3")},
            community : {PyNone, PyText("public")},
            username : {PyNone}, auth : {PyText("md5")}, priv : {PyText("des")},
            authkey : {PyNone}, privkey : {PyNone},
            descr : {PyNone, PyText("a")},
            contact : {PyNone, PyText("a")},
            name : {PyNone, PyText("a"), PyText("b")},
            location : {PyNone, PyText("a")}] :
        /\ p.version # PyNone \/ p.community # PyNone
        /\ p.descr # PyNone \/ p.contact # PyNone \/ p.name # PyNone \/ p.location # PyNone}

SysinfoDevices ==
    [descr : {"a", "b"}, contact : {"a"}, name : {"a", "b"}, location : {"a", "b"},
     refuses : BOOLEAN]

\* a module, its parameters and the device it runs against
ModuleSamples ==
    {[module |-> "snmp_interface", params |-> p, dev |-> d] :
        p \in InterfaceParams, d \in InterfaceDevices}
    \cup {[module |-> "snmp_vlan", params |-> p, dev |-> d] :
        p \in VlanParams, d \in VlanDevices}
    \cup {[module |-> "ciscosb_firmware", params |-> p, dev |-> d] :
        p \in FirmwareParams, d \in FirmwareDevices}
    \cup {[module |-> "snmp_sysinfo", params |-> p, dev |-> d] :
        p \in SysinfoMainParams, d \in SysinfoDevices}

\* urls as urlparse splits them: each scheme the module knows and two it does
\* not, a unit number, an address or nothing for the host, local paths the
\* module knows and one it does not
UrlSamples ==
    [scheme : {"local", "another-unit", "tftp", "scp", "http", "https", "ftp", ""},
     netloc : {<<>>, <<50>>, TextIp.value},
     path : {"/running-config", "/image", "/nothing"}]

\* url_to_var_binds for the source (offset 3, nothing bound) or the
\* destination (offset 8, the source bound) of copy 7
UrlCalls ==
    {[url |-> u, copy_index |-> 7, offset |-> 3, var_binds |-> EmptyDict] : u \in UrlSamples}
    \cup {[url |-> u, copy_index |-> 7, offset |-> 8,
           var_binds |-> UrlToVarBinds([scheme |-> "local", netloc |-> <<>>, path |-> "/image"],
                                       7, 3, EmptyDict).var_binds] : u \in UrlSamples}

\* the answers of the device to the gets of the operation state: up to
\* MaxPolls - 1 times in progress, then a final state or no answer (0)
MaxPolls == 3

RECURSIVE InProgress(_)
InProgress(n) ==
    IF n = 0 THEN {<<>>}
    ELSE InProgress(n - 1) \cup
         {Append(q, st) : q \in {x \in InProgress(n - 1) : Len(x) = n - 1},
                          st \in {STATE_UPLOAD_IN_PROGRESS, STATE_DOWNLOAD_IN_PROGRESS}}

CopyDevices ==
    [create : BOOLEAN,
     polls : {Append(q, st) : q \in InProgress(MaxPolls - 1),
                              st \in {0, STATE_COPY_FAILED, STATE_COPY_TIMEDOUT,
                                      STATE_COPY_FINISHED}},
     message : {PyStr(<<>>), PyStr(<<102, 117, 108, 108>>),
                Raise("SnmpError", "noSuchName", "")},
     destroy : BOOLEAN]

\* a copy of the running configuration or of the image of unit 2 to a TFTP
\* server, and copies with a url the module refuses
CopyParams ==
    {[src |-> src, dest |-> dest, copy_index |-> 7] :
        src \in {[scheme |-> "local", netloc |-> <<>>, path |-> "/running-config"],
                 [scheme |-> "another-unit", netloc |-> <<50>>, path |-> "/image"],
                 [scheme |-> "ftp", netloc |-> TextIp.value, path |-> "/image"]},
        dest \in {[scheme |-> "tftp", netloc |-> TextIp.value, path |-> "/nothing"],
                  [scheme |-> "local", netloc |-> <<>>, path |-> "/nothing"]}}

\* responses as send hands them to transmit: a line of 0 to 3 bytes ("a") and
\* its newline; the room in the pipe to the worker
MaxLine == 3
TransmitSamples ==
    {[json |-> [i \in 1..n |-> 97] \o <<ChNewline>>, room |-> room] :
        n \in 0..MaxLine, room \in 0..PipeCapacity}

\* what the worker writes: streams of up to MaxStream bytes, each the byte "a"
\* or a newline
MaxStream == 5
RECURSIVE Streams(_)
Streams(n) ==
    IF n = 0 THEN {<<>>}
    ELSE LET shorter == Streams(n - 1)
         IN  shorter \cup {Append(q, b) : q \in {r \in shorter : Len(r) = n - 1},
                                          b \in {97, ChNewline}}

\* the ways recv can hand a stream over: chunks of 1 to RecvSize bytes, in order
RECURSIVE Chunkings(_)
Chunkings(stream) ==
    IF stream = <<>> THEN {<<>>}
    ELSE UNION {{<<SubSeq(stream, 1, n)>> \o rest :
                    rest \in Chunkings(SubSeq(stream, n + 1, Len(stream)))} :
                n \in 1..(IF Len(stream) < RecvSize THEN Len(stream) ELSE RecvSize)}

\* the reads of one receive dispatcher: a stream in chunks, with or without the
\* empty chunk of the end of the stream after them
ReadSamples ==
    LET whole == UNION {Chunkings(q) : q \in Streams(MaxStream) \ {<<>>}}
    IN  whole \cup {Append(c, <<>>) : c \in whole}

ConvInputs ==
    {<<"unserialize", f>> : f \in FrameSamples}
    \cup {<<"handle_read", c>> : c \in ReadSamples}
    \cup {<<"transmit", a>> : a \in TransmitSamples}
    \cup {<<"snmp_get_auth", a>> : a \in SysinfoParams}
    \cup {<<"snmp_vlan", a>> : a \in VlanSamples}
    \cup {<<"_get_snmp_auth", a>> : a \in AuthSamples}
    \cup {<<"send", kwargs>> : kwargs \in SendSamples}
    \cup ConstructSamples
    \cup {<<"_on_rpc_get", v>> : v \in AnswerSamples}
    \cup {<<"rpc_get", q>> : q \in RpcGetSamples}
    \cup {<<"url_to_var_binds", c>> : c \in UrlCalls}
    \cup {<<"ciscosb_copy", [params |-> p, dev |-> d]>> : p \in CopyParams, d \in CopyDevices}
    \cup {<<"snmp_interface", [params |-> p, dev |-> d]>> : p \in InterfaceParams,
                                                          d \in InterfaceDevices}
    \cup {<<"check_mode", m>> : m \in ModuleSamples}
    \cup {<<"_to_pysnmp", v>> : v \in CodecScalars}
    \cup {<<"_from_pysnmp", v>> : v \in ForeignNatives}
    \cup {<<"rpc_set", d>> : d \in RpcSetSamples}

ConvInit ==
    /\ \E in \in ConvInputs : vfn = in[1] /\ varg = in[2]
    /\ vout = PyNone
    /\ vpc = "start"

ConvIdle ==
    /\ vfn = ""
    /\ varg = PyNone
    /\ vout = PyNone
    /\ vpc = "idle"

\* unserialize(frame)
ConvUnserialize ==
    /\ vpc = "start"
    /\ vfn = "unserialize"
    /\ vout' = Unserialize(varg)
    /\ vpc' = "done"
    /\ UNCHANGED <<vfn, varg, notConvVars>>

\* send(**kwargs)
ConvSend ==
    /\ vpc = "start"
    /\ vfn = "send"
    /\ vout' = Send(varg)
    /\ vpc' = "done"
    /\ UNCHANGED <<vfn, varg, notConvVars>>

\* cls(value)
ConvConstruct ==
    /\ vpc = "start"
    /\ vfn \in SnmpValueClasses
    /\ vout' = Construct(vfn, varg)
    /\ vpc' = "done"
    /\ UNCHANGED <<vfn, varg, notConvVars>>

\* _on_rpc_get for the answer to a get of one name, and what the worker's call
\* returns for the line it sends
ConvOnRpcGet ==
    /\ vpc = "start"
    /\ vfn = "_on_rpc_get"
    /\ \E eff \in {OnRpcGet(Reply("", "", <<<<ObjectName(NameHeld.value), varg>>>>, <<>>),
                              ClientId)} :
        vout' = IF IsRaise(eff.raised) THEN eff.raised
                ELSE [cls |-> "answered", line |-> eff.send[1],
                      returned |-> CallReturn(eff.send[1])]
    /\ vpc' = "done"
    /\ UNCHANGED <<vfn, varg, notConvVars>>

\* handle_line of a get request: rpc_get(id, *params)
ConvRpcGet ==
    /\ vpc = "start"
    /\ vfn = "rpc_get"
    /\ vout' = RpcGet(ClientId, varg)
    /\ vpc' = "done"
    /\ UNCHANGED <<vfn, varg, notConvVars>>

\* handle_line of a set request: rpc_set(id, var_binds)
ConvRpcSet ==
    /\ vpc = "start"
    /\ vfn = "rpc_set"
    /\ vout' = RpcSet(ClientId, varg)
    /\ vpc' = "done"
    /\ UNCHANGED <<vfn, varg, notConvVars>>

\* _from_pysnmp(_to_pysnmp(value))
ConvToPysnmpAndBack ==
    /\ vpc = "start"
    /\ vfn = "_to_pysnmp"
    /\ \E native \in {ToPysnmp(varg)} :
        vout' = IF IsRaise(native) THEN native ELSE FromPysnmp(native)
    /\ vpc' = "done"
    /\ UNCHANGED <<vfn, varg, notConvVars>>

\* _from_pysnmp(value)
ConvFromPysnmp ==
    /\ vpc = "start"
    /\ vfn = "_from_pysnmp"
    /\ vout' = FromPysnmp(varg)
    /\ vpc' = "done"
    /\ UNCHANGED <<vfn, varg, notConvVars>>

\* a run of a module in check mode and a normal run of it, against the same
\* device
ConvCheckMode ==
    /\ vpc = "start"
    /\ vfn = "check_mode"
    /\ vout' = [check |-> RunModule(varg.module, varg.params, varg.dev, TRUE),
                normal |-> RunModule(varg.module, varg.params, varg.dev, FALSE)]
    /\ vpc' = "done"
    /\ UNCHANGED <<vfn, varg, notConvVars>>

\* a run of snmp_interface, and a second run against the device as the first
\* left it
ConvSnmpInterface ==
    /\ vpc = "start"
    /\ vfn = "snmp_interface"
    /\ \E first \in {SnmpInterfaceMain(varg.params, varg.dev, FALSE)} :
        \E var_binds \in {IF first.exit.failed \/ ~first.exit.changed THEN <<>>
                          ELSE first.calls[Len(first.calls)].args} :
            vout' = [first |-> first,
                     again |-> SnmpInterfaceMain(varg.params,
                                                 InterfaceAfter(varg.dev, var_binds), FALSE)]
    /\ vpc' = "done"
    /\ UNCHANGED <<vfn, varg, notConvVars>>

\* url_to_var_binds(url, copy_index, offset, var_binds)
ConvUrlToVarBinds ==
    /\ vpc = "start"
    /\ vfn = "url_to_var_binds"
    /\ vout' = UrlToVarBinds(varg.url, varg.copy_index, varg.offset, varg.var_binds)
    /\ vpc' = "done"
    /\ UNCHANGED <<vfn, varg, notConvVars>>

\* a run of ciscosb_copy
ConvCiscosbCopy ==
    /\ vpc = "start"
    /\ vfn = "ciscosb_copy"
    /\ vout' = CiscosbCopyMain(varg.params, varg.dev)
    /\ vpc' = "done"
    /\ UNCHANGED <<vfn, varg, notConvVars>>

\* self._get_snmp_auth()
ConvGetSnmpAuth ==
    /\ vpc = "start"
    /\ vfn = "_get_snmp_auth"
    /\ vout' = GetSnmpAuth(varg.runner, varg.cfg)
    /\ vpc' = "done"
    /\ UNCHANGED <<vfn, varg, notConvVars>>

\* a run of snmp_vlan
ConvSnmpVlan ==
    /\ vpc = "start"
    /\ vfn = "snmp_vlan"
    /\ vout' = SnmpVlanMain(varg.params, varg.dev, varg.check_mode)
    /\ vpc' = "done"
    /\ UNCHANGED <<vfn, varg, notConvVars>>

\* snmp_get_auth(module) of snmp_sysinfo
ConvSysinfoAuth ==
    /\ vpc = "start"
    /\ vfn = "snmp_get_auth"
    /\ vout' = SnmpGetAuth(varg)
    /\ vpc' = "done"
    /\ UNCHANGED <<vfn, varg, notConvVars>>

\* _Server.transmit(json) with some room in the pipe
ConvTransmit ==
    /\ vpc = "start"
    /\ vfn = "transmit"
    /\ vout' = ServerTransmit(varg.json, varg.room)
    /\ vpc' = "done"
    /\ UNCHANGED <<vfn, varg, notConvVars>>

\* the next handle_read of the receive dispatcher, with the next chunk
ConvHandleRead ==
    /\ vpc = "start"
    /\ vfn = "handle_read"
    /\ \E self \in {IF vout = PyNone THEN ReceiveDispatcher ELSE vout} :
        /\ vout' = HandleRead(self, varg[self.reads + 1])
        /\ vpc' = IF self.reads + 1 = Len(varg) THEN "done" ELSE "start"
    /\ UNCHANGED <<vfn, varg, notConvVars>>

ConvNext ==
    \/ ConvHandleRead
    \/ ConvTransmit
    \/ ConvSysinfoAuth
    \/ ConvUnserialize
    \/ ConvSend
    \/ ConvConstruct
    \/ ConvOnRpcGet
    \/ ConvGetSnmpAuth
    \/ ConvSnmpVlan
    \/ ConvRpcGet
    \/ ConvRpcSet
    \/ ConvUrlToVarBinds
    \/ ConvCiscosbCopy
    \/ ConvSnmpInterface
    \/ ConvCheckMode
    \/ ConvToPysnmpAndBack
    \/ ConvFromPysnmp

-----------------------------------------------------------------------------
-----------------------------------------------------------------------------
(* Specification SpecLoop: the loop of one exec_command, step by step: the  *)
(* while condition, asyncore.poll, handleTimerTick.                          *)

MaxRounds == 3
MaxPending == 2

LoopInit ==
    /\ lpc = "test"
    /\ lreadable = {"stdout", "stderr"}
    /\ lopen = {"stdout", "stderr"}
    /\ lpending = 0
    /\ lready = {}
    /\ lpolls = 0
    /\ lticks = 0

LoopIdle ==
    /\ lpc = "idle"
    /\ lreadable = {}
    /\ lopen = {}
    /\ lpending = 0
    /\ lready = {}
    /\ lpolls = 0
    /\ lticks = 0

\* the worker closes one of its output streams (or exits)
LoopWorkerClose ==
    /\ \E s \in lopen : lopen' = lopen \ {s}
    /\ UNCHANGED <<lpc, lreadable, lpending, lready, lpolls, lticks, notLoopVars>>

\* while stdout.readable() or stderr.readable()
LoopTest ==
    /\ lpc = "test"
    /\ lpc' = IF lreadable # {} THEN "poll" ELSE "wait"
    /\ UNCHANGED <<lreadable, lopen, lpending, lready, lpolls, lticks, notLoopVars>>

\* what a poll can find ready: an output dispatcher still in the map, the pipe
\* from the worker while another exchange can be issued, the socket when an
\* exchange is in flight; nothing at all when the 0.5 s pass
CanBeReady ==
    lreadable \cup (IF lpending < MaxPending THEN {"recv"} ELSE {})
              \cup (IF lpending > 0 THEN {"socket"} ELSE {})

\* the poll that goes back to the while condition when nothing was ready
LoopPollSkipsIdle ==
    /\ lpc = "poll"
    /\ lpolls < MaxRounds
    /\ \E ready \in SUBSET CanBeReady, propagates \in BOOLEAN :
        /\ propagates => "socket" \in ready
        /\ lready' = ready
        /\ lreadable' = lreadable \ {s \in ready : s \notin lopen}
        /\ lpending' = lpending + (IF "recv" \in ready THEN 1 ELSE 0)
                                - (IF "socket" \in ready THEN 1 ELSE 0)
        /\ lpc' = IF propagates THEN "raised" ELSE IF ready = {} THEN "test" ELSE "tick"
    /\ lpolls' = lpolls + 1
    /\ UNCHANGED <<lopen, lticks, notLoopVars>>

\* asyncore.poll(0.5, map=sock_map): the handlers of the ready descriptors run.
\* An output dispatcher at end of stream sets _finished; the receive dispatcher
\* hands a request to the broker, which issues an exchange; the socket's answer
\* completes one, and an exception of its callback may leave the poll.
LoopPoll ==
    /\ lpc = "poll"
    /\ lpolls < MaxRounds
    /\ \E ready \in SUBSET CanBeReady, propagates \in BOOLEAN :
        /\ propagates => "socket" \in ready
        /\ lready' = ready
        /\ lreadable' = lreadable \ {s \in ready : s \notin lopen}
        /\ lpending' = lpending + (IF "recv" \in ready THEN 1 ELSE 0)
                                - (IF "socket" \in ready THEN 1 ELSE 0)
        /\ lpc' = IF propagates THEN "raised" ELSE "tick"
    /\ lpolls' = lpolls + 1
    /\ UNCHANGED <<lopen, lticks, notLoopVars>>

\* conn.dispatcher.handleTimerTick(time.time()): exchanges that timed out are
\* completed with the error indication; an exception of a callback leaves
\* exec_command
LoopTick ==
    /\ lpc = "tick"
    /\ \E timedOut \in 0..lpending, raises \in BOOLEAN :
        /\ raises => timedOut > 0
        /\ lpending' = lpending - timedOut
        /\ lpc' = IF raises THEN "raised" ELSE "test"
    /\ lticks' = lticks + 1
    /\ UNCHANGED <<lreadable, lopen, lready, lpolls, notLoopVars>>

LoopNext == LoopWorkerClose \/ LoopTest \/ LoopPoll \/ LoopTick

-----------------------------------------------------------------------------
Init == ExecInit /\ CodecIdle /\ WalkIdle /\ GetIdle /\ CacheIdle /\ ConvIdle /\ LoopIdle
Spec == Init /\ [][Next]_vars

SpecCacheInit == CacheInit /\ CodecIdle /\ WalkIdle /\ GetIdle /\ ExecIdle /\ ConvIdle /\ LoopIdle
SpecCache == SpecCacheInit /\ [][Lookup]_vars

SpecCodecInit == CodecInit /\ WalkIdle /\ GetIdle /\ ExecIdle /\ CacheIdle /\ ConvIdle /\ LoopIdle
SpecCodec == SpecCodecInit /\ [][CodecNext]_vars

SpecWalkInit == WalkInit /\ CodecIdle /\ GetIdle /\ ExecIdle /\ CacheIdle /\ ConvIdle /\ LoopIdle
SpecWalk == SpecWalkInit /\ [][WalkNext]_vars

SpecGetInit == GetInit /\ CodecIdle /\ WalkIdle /\ ExecIdle /\ CacheIdle /\ ConvIdle /\ LoopIdle
SpecGet == SpecGetInit /\ [][GetNext]_vars

SpecConvInit == ConvInit /\ CodecIdle /\ WalkIdle /\ GetIdle /\ ExecIdle /\ CacheIdle /\ LoopIdle
SpecConv == SpecConvInit /\ [][ConvNext]_vars

SpecStartInit == ExecInit /\ CacheInit /\ CodecIdle /\ WalkIdle /\ GetIdle /\ ConvIdle /\ LoopIdle
SpecStart == SpecStartInit /\ [][StartNext]_vars

SpecLoopInit == LoopInit /\ CodecIdle /\ WalkIdle /\ GetIdle /\ ExecIdle /\ CacheIdle /\ ConvIdle
SpecLoop == SpecLoopInit /\ [][LoopNext]_vars

-----------------------------------------------------------------------------
(* Properties *)

(* C1: for every value v of every variant, unserialize(serialize(v)) succeeds *)
(* and returns a value of the same variant with the same payload.             *)
C1_RoundTrip == cpc = "done" => cout = cval

\* whether an OID lies in the subtree of root
IsUnder(oid, root) == Len(oid) > Len(root) /\ SubSeq(oid, 1, Len(root)) = root

\* the text of the part of an OID after root
SuffixText(oid, root) == OidText(SubSeq(oid, Len(root) + 1, Len(oid)))

\* the mapping a walk of WalkRootOid is to return: relative suffix -> value
WalkExpected ==
    LET sub == {e \in wmib : IsUnder(e[1], WalkRootOid)}
    IN  [k \in {SuffixText(e[1], WalkRootOid) : e \in sub} |->
            FromPysnmp((CHOOSE e \in sub : SuffixText(e[1], WalkRootOid) = k)[2])]

\* the walk ended with a result response, all its bulk answers holding var-binds
WalkAnswered ==
    /\ wpc = "done"
    /\ ~wempty
    /\ Len(wsent) = 1
    /\ "result" \in DOMAIN Unserialize(wsent[1]).value

(* C2: a walk of root against a device holding k >= 0 entries under root,     *)
(* followed by an OID outside the subtree, returns exactly the k entries keyed *)
(* by their relative suffixes, however the entries are split across bulk       *)
(* answers; the outside entry is not in the result.                            *)
C2_WalkReturnsSubtree ==
    WalkAnswered => Unserialize(wsent[1]).value.result = PyDict(WalkExpected)

(* C3: a var-bind is stored only if its OID begins with root followed by '.', *)
(* also when its OID merely has root's text as a character prefix.             *)
C3_StoredOnlyUnderRootDot ==
    \A o \in wstored : SliceTo(o, Len(wroot.value) + 1) = wroot.value \o <<ChDot>>

\* a dotted text whose subidentifiers are plain decimal numbers without leading zeros
IsCanonical(text) ==
    LET parts == Split(text, ChDot)
    IN  \A i \in 1..Len(parts) :
            IsDigits(parts[i]) /\ (Len(parts[i]) = 1 \/ parts[i][1] # ChZero)

\* the get ended with a result response; the mapping the client returns
GetAnswered ==
    /\ gpc = "done"
    /\ Len(gsent) = 1
    /\ "result" \in DOMAIN Unserialize(gsent[1]).value

GetResult == Unserialize(gsent[1]).value.result.value

GetRequested == {gnames[i].value : i \in 1..Len(gnames)}

(* C4 as stated: a successful get on N OIDs returns exactly N entries whose   *)
(* keys are exactly the OID strings requested, whatever the order of the      *)
(* var-binds in the device's answer.                                          *)
C4_GetKeysAsRequested ==
    GetAnswered =>
        /\ DOMAIN GetResult = GetRequested
        /\ Cardinality(DOMAIN GetResult) = Len(gnames)

(* C4 amended: a successful get on N distinct OIDs, each given in canonical   *)
(* dotted-decimal text, returns exactly N entries whose keys are exactly the  *)
(* strings requested, whatever the order of the var-binds in the answer.      *)
C4_GetKeysOfDistinctCanonical ==
    (/\ GetAnswered
     /\ Cardinality(GetRequested) = Len(gnames)
     /\ \A i \in 1..Len(gnames) : IsCanonical(gnames[i].value))
    => /\ DOMAIN GetResult = GetRequested
       /\ Cardinality(DOMAIN GetResult) = Len(gnames)

C4_Witness ==
    /\ GetAnswered
    /\ Len(gnames) = 2
    /\ gnames[1] # gnames[2]
    /\ \A i \in 1..Len(gnames) : IsCanonical(gnames[i].value)
    /\ Cardinality(DOMAIN GetResult) = 2

\* --- set of nothing ---

SetOfNothing == Call("set", <<PyDict(EmptyDict)>>)

\* C5: when set called with an empty binding map has returned success, no
\* request at all was sent to the device for it
C5_EmptySetStaysLocal ==
    \A k \in Workers :
        (proc[k] = "running" /\ client[k] = "idle" /\ ccall[k] = SetOfNothing
            /\ cret[k] = PyNone)
        => issued[k] = <<>>

\* --- failures of the broker ---

IsErrorLine(line) ==
    LET m == Unserialize(line)
    IN  ~IsRaise(m) /\ "error" \in DOMAIN m.value
        /\ "message" \in DOMAIN m.value.error.value

\* C6: a failure that occurred while the broker serviced the request a worker
\* is waiting on has put an error response carrying a message in that
\* worker's pipe
C6_FailuresReachTheWorker ==
    \A k \in Workers :
        (client[k] = "waiting" /\ IsRaise(escaped[k]))
        => \E i \in 1..Len(pipeFrom[k]) : IsErrorLine(pipeFrom[k][i])

\* --- replies and requests ---

\* C7: every response written to a pipe was written to the pipe of the worker
\* whose request line started the exchange it completes, and carries the id
\* of that request line
C7_ReplyCompletesItsRequest ==
    \A d \in delivered : d.pipe = d.origin.worker /\ d.id = d.origin.id

\* a response has been written for the current worker while an exchange of an
\* earlier worker's broker is in flight on the session
C7_Witness ==
    /\ cur \in Workers
    /\ \E d \in delivered : d.pipe = cur
    /\ Len(pipeFrom[cur]) > 0
    /\ \E x \in inflight : x.server # cur

\* --- the session cache ---

KeysMade == {CacheKey(made[i].value) : i \in 1..Len(made)}
FirstMade(key) ==
    made[CHOOSE i \in 1..Len(made) :
            /\ CacheKey(made[i].value) = key
            /\ \A j \in 1..(i - 1) : CacheKey(made[j].value) # key]

C9_LoopEndsWithTheWorker ==
    \A k \in Workers :
        epc[k] \in {"wait", "returned"}
        => /\ <<k, "stdout">> \in finished
           /\ <<k, "stderr">> \in finished
           /\ proc[k] = "exited"

\* C10: once exec_command has returned, no descriptor it opened for its worker
\* is open and none of its dispatchers is in the socket map
C10_NothingLeftBehind ==
    \A k \in Workers :
        epc[k] = "returned"
        => /\ fds \cap (PipeFds(k) \cup PopenFds(k) \cup DispatcherFds(k)) = {}
           /\ sockMap \cap Dispatchers(k) = {}

\* --- requests whose worker is gone ---

\* C11: no exec_command is left by an exception that the reply or the timeout
\* of a request of an earlier, exited worker raised in its loop
C11_AbandonedQuietly == \A k \in Workers : epc[k] # "disturbed"

\* --- one request at a time ---

\* the requests of worker k not yet answered to it: request lines its broker
\* has not read, exchanges of its broker with the device, responses it has not
\* read
Outstanding(k) ==
    Len(pipeTo[k]) + Cardinality({x \in inflight : x.server = k}) + Len(pipeFrom[k])

\* C12: on each pipe pair whose worker calls through SnmpClient at most one
\* request is outstanding, and none while the client is between two calls
C12_OneOutstanding ==
    \A k \in Workers :
        /\ client[k] # "bypassed" => Outstanding(k) <= 1
        /\ (proc[k] = "running" /\ client[k] = "idle") => Outstanding(k) = 0

\* a worker has read the response to its first call and its second request is
\* on its way
C12_Witness ==
    /\ cur = 1
    /\ ncalls = 2
    /\ client[1] = "waiting"
    /\ Outstanding(1) = 1

\* --- the broker after an error response ---

\* the broker of worker k reads the request lines of its pipe
Servicing(k) ==
    /\ <<k, "recv">> \in sockMap
    /\ <<k, "recv">> \notin finished
    /\ escaped[k] = PyNone

\* C13: once a worker's call has returned the error response of a device status
\* or of a transport failure, its broker still reads the requests of its pipe,
\* and a response to its next call is a response of that call
C13_ServesAfterError ==
    \A k \in Workers :
        /\ (proc[k] = "running" /\ client[k] = "idle" /\ IsDeviceFailure(cret[k]))
              => Servicing(k)
        /\ (proc[k] = "running" /\ erred[k] /\ Len(pipeFrom[k]) > 0)
              => /\ client[k] = "waiting"
                 /\ Len(issued[k]) > 0
                 /\ Unserialize(pipeFrom[k][1]).value.id = ClientId

\* a worker whose first call returned a device failure has made a second call,
\* and the broker has written the result of that call to its pipe
C13_Witness ==
    /\ proc[1] = "running"
    /\ erred[1]
    /\ client[1] = "waiting"
    /\ ccall[1] = Call("get", <<NameHeld>>)
    /\ Len(pipeFrom[1]) = 1
    /\ "result" \in DOMAIN Unserialize(pipeFrom[1][1]).value

\* --- lines that are no request ---

\* the exchanges with the device started by broker k
StartedBy(k) == {x \in inflight : x.server = k}

\* C14: when the lines a broker reads begin with one that is no decodable
\* request, the read starts no device operation, writes no response and closes
\* the receiving dispatcher; and while the worker runs a broker whose receiving
\* dispatcher is closed has no exchange with the device open and no response in
\* its pipe, so a request written later is never answered
C14_BadLineEndsService ==
    /\ [][\A k \in Workers :
            (Len(pipeTo[k]) > 0 /\ pipeTo'[k] = <<>> /\ pipeTo[k][1] \in BadLines)
               => /\ <<k, "recv">> \notin sockMap'
                  /\ inflight' = inflight
                  /\ pipeFrom' = pipeFrom]_vars
    /\ [](\A k \in Workers :
            (proc[k] = "running" /\ <<k, "recv">> \notin sockMap)
               => /\ StartedBy(k) = {}
                  /\ pipeFrom[k] = <<>>)

\* a broker has read a line that is no request and the worker has then written a
\* valid request, which lies unread in the pipe while the loop goes on
C14_Witness ==
    /\ InLoop
    /\ cur = 1
    /\ proc[1] = "running"
    /\ <<1, "recv">> \notin sockMap
    /\ IsRaise(escaped[1])
    /\ Len(pipeTo[1]) = 1
    /\ pipeTo[1][1] \notin BadLines

\* --- tags that are no value class ---

\* the tags of the tagged values of a frame
RECURSIVE TagsOf(_)
TagsOf(j) ==
    IF j.cls = "jsonclass" THEN {j.name} \cup TagsOf(j.data)
    ELSE IF j.cls = "list" THEN UNION {TagsOf(j.value[i]) : i \in 1..Len(j.value)}
    ELSE IF j.cls = "dict" THEN UNION {TagsOf(j.value[k]) : k \in DOMAIN j.value}
    ELSE {}

\* C15: unserialize of a frame with a tagged value whose tag is not the name of
\* a value class raises
C15_UnknownTagRaises ==
    (vfn = "unserialize" /\ vpc = "done" /\ ~(TagsOf(varg) \subseteq SnmpValueClasses))
        => IsRaise(vout)

\* a response whose result carries the tag "Bits" has been decoded
C15_Witness ==
    /\ vfn = "unserialize"
    /\ vpc = "done"
    /\ IsRaise(vout)
    /\ varg.cls = "dict"
    /\ "result" \in DOMAIN varg.value
    /\ TagsOf(varg) = {"Bits"}

\* --- a bulk reply without var-binds ---

\* the keys of the mapping a walk has accumulated: what follows the root and one
\* more character in each OID stored
WalkKeysSoFar == {SliceFrom(o, Len(wroot.value) + 1) : o \in wstored}

\* C16: once a bulk reply of a walk held no var-binds the walk is over: no bulk
\* read is open, nothing was raised, and the one line sent is the result whose
\* mapping is what the earlier replies accumulated (nothing, if there were none)
C16_EmptyReplyEndsWalk ==
    wempty =>
        /\ wpc = "done"
        /\ wreq = <<>>
        /\ wescaped = {}
        /\ Len(wsent) = 1
        /\ "result" \in DOMAIN Unserialize(wsent[1]).value
        /\ DOMAIN Unserialize(wsent[1]).value.result.value = WalkKeysSoFar

\* a walk that had stored var-binds of earlier replies got an empty reply
C16_Witness ==
    /\ wempty
    /\ wstored # {}
    /\ wpc = "done"
    /\ Len(wsent) = 1

\* --- one message, one line ---

IsDottedDecimal(t) == \A i \in 1..Len(Split(t, ChDot)) : IsDigits(Split(t, ChDot)[i])

\* every subidentifier of a dotted decimal text is written without leading zeros
IsPlain(t) ==
    \A i \in 1..Len(Split(t, ChDot)) :
        Len(Split(t, ChDot)[i]) = 1 \/ Split(t, ChDot)[i][1] # ChZero

\* the numbers of the subidentifiers of a dotted decimal text
SubIdNumbers(t) == [i \in 1..Len(Split(t, ChDot)) |-> DigitsToNat(Split(t, ChDot)[i])]

\* C18: ObjectIdentifier of a dotted decimal text holds a dotted decimal text
\* with the same subidentifier numbers, each without leading zeros; a text that
\* is written that way already is held as it is
C18_OidCanonical ==
    (vfn = "ObjectIdentifier" /\ vpc = "done" /\ IsDottedDecimal(varg.value))
        => /\ ~IsRaise(vout)
           /\ vout.cls = "ObjectIdentifier"
           /\ vout.value.cls = "str"
           /\ IsDottedDecimal(vout.value.value)
           /\ IsPlain(vout.value.value)
           /\ SubIdNumbers(vout.value.value) = SubIdNumbers(varg.value)
           /\ (IsPlain(varg.value) => vout.value = varg)

\* ObjectIdentifier("1.3.6.01.4.1") has been built and holds "1.3.6.1.4.1"
C18_Witness ==
    /\ vfn = "ObjectIdentifier"
    /\ vpc = "done"
    /\ varg = TextOidZero
    /\ ~IsRaise(vout)
    /\ vout.value = TextOid

\* --- what a numeric value holds ---

\* C19: a value of a numeric class, built by its constructor or decoded from a
\* frame, holds a number
C19_NumericHoldsNumber ==
    (vpc = "done" /\ ~IsRaise(vout) /\ vout.cls \in NumericClasses)
        => vout.value.cls = "int"

\* --- absent values ---

\* "null"
JsonNull == PyStr(<<110, 117, 108, 108>>)

\* C20: a get answered with noSuchObject, noSuchInstance or endOfMibView sends
\* the result that maps the name to null, and the worker's call returns the
\* mapping of the name to None, the same for the three
C20_AbsentIsNull ==
    (vfn = "_on_rpc_get" /\ vpc = "done" /\ varg \in {NoSuchObject, NoSuchInstance, EndOfMibView})
        => /\ ~IsRaise(vout)
           /\ DOMAIN vout.line.value.result.value = {NameHeld.value}
           /\ JsonText(vout.line.value.result.value[NameHeld.value], FALSE) = JsonNull
           /\ vout.returned = PyDict([k \in {NameHeld.value} |-> PyNone])

\* a get answered with noSuchObject has sent its result
C20_Witness ==
    /\ vfn = "_on_rpc_get"
    /\ vpc = "done"
    /\ varg = NoSuchObject
    /\ ~IsRaise(vout)
    /\ vout.returned = PyDict([k \in {NameHeld.value} |-> PyNone])

\* --- credential resolution ---

\* credential resolution has run
Resolved == vfn = "_get_snmp_auth" /\ vpc = "done"

\* C21: with a community configured, credential resolution yields the
\* community credential of that community, whatever the other settings are
C21_CommunityWins ==
    (Resolved /\ varg.cfg.SNMP_COMMUNITY # PyNone)
        => /\ vout.cls = "CommunityData"
           /\ vout.value = varg.cfg.SNMP_COMMUNITY

\* the runner has _get_snmp_auth build a v3 credential: become by snmp with a user
SelectsV3(runner) ==
    runner.become /\ runner.become_method = "snmp" /\ runner.become_user # PyNone

\* a protocol name of the configuration is none of those _get_snmp_auth knows
BadProtocol(cfg) ==
    \/ cfg.SNMP_AUTH_PROTOCOL \notin {"md5", "sha", "none"}
    \/ cfg.SNMP_PRIV_PROTOCOL \notin {"des", "aes", "none"}

\* the lookup raised the error of an unknown protocol name
UnsupportedProtocol(ret) ==
    /\ IsRaise(ret)
    /\ ret.value[1] = "AnsibleError"
    /\ ret.value[2] \in {"Unsupported SNMP authentication protocol: %s",
                         "Unsupported SNMP privacy protocol: %s"}
    /\ ret.value[3] \in {config.SNMP_AUTH_PROTOCOL, config.SNMP_PRIV_PROTOCOL}

\* C22: a lookup that resolves a v3 credential (no session cached for the
\* endpoint, runner becoming by snmp with a user) under a configuration with an
\* unknown auth or priv protocol name raises the configuration error, creates
\* no session and leaves the cache as it was
C22_BadProtocolNoSession ==
    [][\A key \in {got'[Len(got')].key}, runner \in {got'[Len(got')].runner} :
          (key \notin DOMAIN cache /\ SelectsV3(runner) /\ BadProtocol(config))
              => /\ UnsupportedProtocol(got'[Len(got')].ret)
                 /\ made' = made
                 /\ cache' = cache
                 /\ key \notin DOMAIN cache']_cacheVars

\* a lookup raised for the unknown protocol name after a session for another
\* endpoint was cached, and its own endpoint has no session
C22_Witness ==
    /\ Len(got) >= 2
    /\ cache # EmptyDict
    /\ SelectsV3(got[Len(got)].runner)
    /\ UnsupportedProtocol(got[Len(got)].ret)
    /\ got[Len(got)].key \notin DOMAIN cache

\* sha and aes configured, neither key configured, a runner becoming by snmp
\* with a user and a password
BothKeysFromRunner ==
    /\ Resolved
    /\ SelectsV3(varg.runner)
    /\ varg.runner.become_pass # PyNone
    /\ varg.cfg.SNMP_AUTH_PROTOCOL = "sha"
    /\ varg.cfg.SNMP_PRIV_PROTOCOL = "aes"
    /\ varg.cfg.SNMP_AUTH_KEY = PyNone
    /\ varg.cfg.SNMP_PRIV_KEY = PyNone

\* C23: with sha and aes, no key configured: without dual_key the one secret
\* obtained is both the authentication key and the privacy key; with dual_key
\* the two keys are two secrets, not the one secret used twice
C23_DualKey ==
    BothKeysFromRunner
        => /\ vout.cls = "UsmUserData"
           /\ ~varg.dual_key => /\ vout.value.authKey = varg.runner.become_pass
                                /\ vout.value.privKey = varg.runner.become_pass
           /\ varg.dual_key => vout.value.authKey # vout.value.privKey

\* --- the loop of exec_command ---

\* C24: every poll is followed by one timer tick before the next poll: a poll
\* is made only when as many ticks as polls were made, and after a poll the
\* next step of the loop is the tick (unless an exception left exec_command
\* from the poll), whatever the poll found ready
C24_TickAfterEveryPoll ==
    /\ lpc \in {"test", "poll", "wait"} => lticks = lpolls
    /\ lpc = "tick" => lpolls = lticks + 1
    /\ lpc = "raised" => lpolls \in {lticks, lticks + 1}

\* the second poll found nothing ready and its tick is due
C24_Witness ==
    /\ lpc = "tick"
    /\ lpolls = 2
    /\ lticks = 1
    /\ lready = {}

\* --- the modules of library/ ---

\* snmp_vlan ran to its exit without failing, outside check mode, asked for a
\* VLAN and for no GVRP change
VlanAsked ==
    /\ vfn = "snmp_vlan"
    /\ vpc = "done"
    /\ ~vout.exit.failed
    /\ ~varg.check_mode
    /\ varg.params.vlan # PyNone
    /\ varg.params.gvrp = PyNone

\* the run made a set
MadeSet == \E i \in 1..Len(vout.calls) : vout.calls[i].method = "set"

\* C25: snmp_vlan with a VLAN and state=present, with or without a port
\* selector, makes a set and reports changed when the bridge does not have the
\* VLAN; with state=absent it makes a set when the bridge has it
C25_VlanIsSet ==
    /\ (VlanAsked /\ varg.params.state = PyText("present")
            /\ varg.params.vlan.value \notin varg.dev.vlans)
         => MadeSet /\ vout.exit.changed
    /\ (VlanAsked /\ varg.params.state = PyText("absent")
            /\ varg.params.vlan.value \in varg.dev.vlans)
         => MadeSet

\* snmp_get_auth built the credential of an SNMPv3 user
BuiltForUser ==
    /\ vfn = "snmp_get_auth"
    /\ vpc = "done"
    /\ "cls" \in DOMAIN vout
    /\ vout.cls = "UsmUserData"

\* C26: the credential snmp_sysinfo builds for an SNMPv3 user has security
\* level authPriv whenever privkey is set and authNoPriv or authPriv whenever
\* authkey is set
C26_KeysSetLevel ==
    BuiltForUser
        => /\ varg.privkey # PyNone => vout.value.securityLevel = "authPriv"
           /\ varg.authkey # PyNone
                => vout.value.securityLevel \in {"authNoPriv", "authPriv"}

\* --- requests and their answers ---

\* C27: every request of a running worker is eventually answered, whether or
\* not the worker has closed its output streams.  Only a step of the loop of
\* the worker's exec_command reads a request or runs the callback that writes
\* its response, and a loop that has ended does not start again; so while a
\* running worker waits for a response that is not in its pipe yet, its
\* exec_command has not left the loop for p.wait()
C27_AnsweredWhileRunning ==
    \A k \in Workers :
        (proc[k] = "running" /\ client[k] = "waiting" /\ Len(pipeFrom[k]) = 0)
            => epc[k] # "wait"

\* --- the pipes ---

\* C28: every response the broker transmits reaches the worker's pipe whole,
\* its newline included, also when the pipe takes only a part of it at the
\* write: no suffix is dropped
C28_WrittenWhole ==
    (vfn = "transmit" /\ vpc = "done" /\ vout.raised = PyNone)
        => vout.written = varg.json

\* the bytes the receive dispatcher has read so far
BytesRead == Flatten(SubSeq(varg, 1, vout.reads))

\* the pieces of the bytes read, cut at the newlines: every piece but the last
\* is a complete line, the last is what follows the last newline
PiecesRead == Split(BytesRead, ChNewline)

\* C29: however the worker's byte stream is cut into reads, after every read
\* the lines given to handle_line are exactly the complete lines of the bytes
\* read so far, each once and in order, and the buffer holds the bytes after
\* the last newline
C29_LinesWhateverTheChunks ==
    (vfn = "handle_read" /\ vout # PyNone)
        => /\ vout.handled = SubSeq(PiecesRead, 1, Len(PiecesRead) - 1)
           /\ vout._buffer = PiecesRead[Len(PiecesRead)]

\* a line that came in two reads was handled after a read that held two lines, and
\* the start of the next line is held
C29_Witness ==
    /\ vfn = "handle_read"
    /\ vpc = "done"
    /\ varg = <<<<ChNewline, ChNewline, 97>>, <<ChNewline, 97>>>>
    /\ vout.handled = <<<<>>, <<>>, <<97>>>>
    /\ vout._buffer = <<97>>

\* --- the end of a walk ---

\* the name the pending bulk read asks for
AskedName(req) == req[1].args[1].value

NewlyStored == {ObjectName(o).value : o \in wstored' \ wstored}

\* C31: the first bulk read of a walk asks for the root; each later one asks
\* for the OID of the last var-bind stored from the reply before it (the
\* greatest, the device answering in OID order; a reply that stored nothing new
\* stored the end-of-table marker under the name asked for); every bulk read
\* names one OID, with non-repeaters 0 and max-repetitions 10
C31_BulkReadsFollowTheCursor ==
    [][/\ wpc' = "await"
          => /\ Len(wreq') = 1
             /\ wreq'[1].kind = "bulk"
             /\ Len(wreq'[1].args) = 1
             /\ wreq'[1].non_repeaters = 0
             /\ wreq'[1].max_repetitions = 10
       /\ (wpc = "start" /\ wpc' = "await") => AskedName(wreq') = <<1, 3, 1>>
       /\ (wpc = "await" /\ wpc' = "await")
          => IF NewlyStored = {} THEN AskedName(wreq') = AskedName(wreq)
             ELSE /\ AskedName(wreq') \in NewlyStored
                  /\ \A o \in NewlyStored : o = AskedName(wreq') \/ OidLess(o, AskedName(wreq'))
      ]_walkVars

\* the third bulk read of a walk, asking for an entry of the subtree
C31_Witness ==
    /\ wpc = "await"
    /\ wrounds = 2
    /\ Cardinality(wstored) = 5
    /\ AskedName(wreq) = <<1, 3, 1, 5>>

\* --- the mapping of a walk ---

\* the bulk reads in flight
WalksInFlight == {x \in inflight : x.req.kind = "bulk"}

\* the responses lying in the pipes to the workers
ResponsesUnread ==
    UNION {{Unserialize(pipeFrom[k][i]).value : i \in 1..Len(pipeFrom[k])} : k \in Workers}

\* C32: the first bulk read of every walk carries an empty mapping, whatever
\* other walks have gathered and whether they are still in flight, and an
\* error response holds the error alone: no result and none of the entries
\* gathered before the failure
C32_MappingPrivate ==
    /\ \A x \in WalksInFlight :
          x.req.args[1].value = <<1, 3, 1>> => DOMAIN x.req.ctx.res = {}
    /\ \A msg \in ResponsesUnread :
          "error" \in DOMAIN msg
              => /\ DOMAIN msg = {"jsonrpc", "error", "id"}
                 /\ DOMAIN msg.error.value = {"code", "message"}

\* the walk of the second worker starts while a bulk read of the first
\* worker's walk, with the entries it gathered, is still in flight
C32_Witness ==
    \E x \in WalksInFlight, y \in WalksInFlight :
        /\ x.server = 1
        /\ DOMAIN x.req.ctx.res # {}
        /\ y.server = 2
        /\ DOMAIN y.req.ctx.res = {}

\* --- one device request for a get, one for a set ---

\* C33: a get request makes the broker issue exactly one device Get, whose
\* names are the requested OIDs in the order of the request, and a set
\* request of values makes it issue exactly one device Set, which holds for
\* each binding of the request the name and the native value of that binding
C33_OneRequestForAll ==
    /\ (vpc = "done" /\ vfn = "rpc_get")
        => /\ vout.raised = PyNone
           /\ Len(vout.issue) = 1
           /\ vout.issue[1].kind = "get"
           /\ Len(vout.issue[1].args) = Len(varg)
           /\ \A i \in 1..Len(varg) :
                vout.issue[1].args[i] = ObjectName(varg[i].value)
    /\ (vpc = "done" /\ vfn = "rpc_set")
        => /\ vout.raised = PyNone
           /\ Len(vout.issue) = 1
           /\ vout.issue[1].kind = "set"
           /\ DOMAIN vout.issue[1].args = DOMAIN varg.value
           /\ \A k \in DOMAIN varg.value :
                /\ vout.issue[1].args[k][1] = ObjectName(k)
                /\ vout.issue[1].args[k][2] = ToPysnmp(varg.value[k])

\* a get of two names, the second before the first in OID order, and a set of
\* two bindings whose names spell the same OID have been handled
C33_Witness ==
    /\ vpc = "done"
    /\ \/ /\ vfn = "rpc_get"
          /\ Len(varg) = 2
          /\ OidLess(ObjectName(varg[2].value).value, ObjectName(varg[1].value).value)
       \/ /\ vfn = "rpc_set"
          /\ Cardinality(DOMAIN varg.value) = 2
          /\ \E j, k \in DOMAIN varg.value : j # k /\ ObjectName(j) = ObjectName(k)

\* --- to the device engine's types and back ---

\* C34: a Value converted to the native type and back is a Value of the same
\* variant and payload, and a native value of a type other than those of the
\* nine variants is refused with an error
C34_NativeRoundTrip ==
    /\ (vpc = "done" /\ vfn = "_to_pysnmp") => vout = varg
    /\ (vpc = "done" /\ vfn = "_from_pysnmp") => IsRaise(vout)

\* --- exec_command that gets no session ---

\* C35: when exec_command has ended with the exception _get_snmp_auth raised
\* in the session lookup, it has started no worker process and none of the descriptors of its two
\* pipes is open
C35_RefusedLeavesNothing ==
    \A k \in Workers :
        (epc[k] = "refused" /\ escaped[k].value[1] = "AnsibleError")
            => proc[k] = "none" /\ fds \cap PipeFds(k) = {}

\* --- check mode ---

\* the calls of a run that write to the device
Writes(run) == {i \in 1..Len(run.calls) : run.calls[i].method \in {"set", "setCmd"}}

ChangedBy(module) ==
    /\ vpc = "done"
    /\ vfn = "check_mode"
    /\ varg.module = module
    /\ Writes(vout.normal) # {}
    /\ vout.normal.exit.changed

Differing(params, dev) ==
    (IF params.alias # PyNone /\ params.alias.value # dev.alias
     THEN {<<OID_IF_ALIAS, OctetString(params.alias)>>} ELSE {})
    \cup (IF params.status # PyNone
             /\ dev.admin # (IF params.status.value = <<117, 112>> THEN 1 ELSE 2)
          THEN {<<OID_IF_ADMIN_STATUS,
                  Int32Of(IF params.status.value = <<117, 112>> THEN 1 ELSE 2)>>} ELSE {})
    \cup (IF params.traps # PyNone
             /\ dev.traps # (IF params.traps.value = <<111, 110>> THEN 1 ELSE 2)
          THEN {<<OID_IF_LINK_UP_DOWN_TRAP_ENABLE,
                  Int32Of(IF params.traps.value = <<111, 110>> THEN 1 ELSE 2)>>} ELSE {})
    \cup (IF params.promisc # PyNone
             /\ dev.promisc # (IF params.promisc.value = <<111, 110>> THEN 1 ELSE 2)
          THEN {<<OID_IF_PROMISCUOUS_MODE,
                  Int32Of(IF params.promisc.value = <<111, 110>> THEN 1 ELSE 2)>>} ELSE {})

\* the bindings of the sets a run made: the attribute and the value of each
SetBindings(run) ==
    UNION {{<<run.calls[i].args[j][1][1], run.calls[i].args[j][2]>> :
                j \in 1..Len(run.calls[i].args)} : i \in Writes(run)}

\* the run found its interface and read the attributes
ReadRow(run) == \E i \in 1..Len(run.calls) : run.calls[i].method = "get"

\* C37: every binding of the Set snmp_interface sends is an attribute whose
\* value on the device differs from the one asked for, with the value asked
\* for (and every such attribute is in the Set, an alias asked to be empty
\* apart); when no attribute differs it sends no Set and reports
\* changed=False; and a second run right after a run that succeeded sends no
\* Set and reports changed=False
C37_SetsWhatDiffers ==
    (vpc = "done" /\ vfn = "snmp_interface")
        => /\ Cardinality(Writes(vout.first)) <= 1
           /\ SetBindings(vout.first) \subseteq Differing(varg.params, varg.dev)
           /\ (ReadRow(vout.first) /\ varg.params.alias # PyStr(<<>>))
                => SetBindings(vout.first) = Differing(varg.params, varg.dev)
           /\ (ReadRow(vout.first) /\ Differing(varg.params, varg.dev) = {})
                => Writes(vout.first) = {} /\ vout.first.exit = ExitJson(FALSE)
           /\ ~vout.first.exit.failed
                => Writes(vout.again) = {} /\ vout.again.exit = ExitJson(FALSE)

\* a run that set two of three attributes asked for, the third being as asked
\* already, and was run again
C37_Witness ==
    /\ vpc = "done"
    /\ vfn = "snmp_interface"
    /\ Cardinality(SetBindings(vout.first)) = 2
    /\ Len(vout.first.calls[1].args) = 3
    /\ vout.first.exit = ExitJson(TRUE)
    /\ vout.again.calls # <<>>

\* --- ciscosb_copy ---

\* the run made the Set that creates the copy row, and the device accepted it
Created ==
    /\ vfn = "ciscosb_copy"
    /\ vpc = "done"
    /\ vout.calls # <<>>
    /\ varg.dev.create

\* the call is the Set that destroys the history row
IsDestroy(call) ==
    /\ call.method = "set"
    /\ \E k \in DOMAIN call.args :
        k[1] = OID_RL_COPY_HISTORY_ROW_STATUS /\ call.args[k] = Int32Of(ROW_STATUS_DESTROY)

\* the gets of the operation state a run made
Polls(run) ==
    {i \in 1..Len(run.calls) :
        /\ run.calls[i].method = "get"
        /\ run.calls[i].args[1][1] = OID_RL_COPY_HISTORY_OPERATION_STATE}

\* C38: when the Set that creates the copy row has succeeded, ciscosb_copy has
\* sent the Set that destroys the history row before it reports its outcome,
\* whatever the outcome, and it has asked for the operation state until the
\* answer was neither upload nor download in progress
C38_DestroysBeforeReporting ==
    Created
        => /\ IsDestroy(vout.calls[Len(vout.calls)])
           /\ Cardinality(Polls(vout)) = Len(varg.dev.polls)
           /\ varg.dev.polls[Len(varg.dev.polls)]
                 \notin {STATE_UPLOAD_IN_PROGRESS, STATE_DOWNLOAD_IN_PROGRESS}

\* the location bound for the url, as a number (0 when none is bound)
LocationBound ==
    LET k == CopyColumn(varg.offset + OFFSET_LOCATION, varg.copy_index)
    IN  IF k \in DOMAIN vout.var_binds THEN DigitsToNat(vout.var_binds[k].value.value) ELSE 0

\* the location code of a scheme, 0 for a scheme that has none
LocationCode(scheme) ==
    CASE scheme = "local" -> LOCATION_LOCAL
      [] scheme = "another-unit" -> LOCATION_ANOTHER_UNIT
      [] scheme = "tftp" -> LOCATION_TFTP
      [] scheme = "scp" -> LOCATION_SCP
      [] scheme = "http" -> LOCATION_HTTP
      [] scheme = "https" -> LOCATION_HTTPS
      [] OTHER -> 0

\* C39: url_to_var_binds binds the location code of the scheme of the url (1
\* local, 2 another-unit, 3 tftp, 5 scp, 7 http, 8 https), for another-unit
\* the unit number too, and returns False without binding anything for any
\* other scheme and for a local path it does not know
C39_LocationCodes ==
    (vfn = "url_to_var_binds" /\ vpc = "done" /\ vout.raised = PyNone)
        => IF LocationCode(varg.url.scheme) = 0
              \/ (varg.url.scheme \in {"local", "another-unit"}
                    /\ PathToFileType(varg.url.path) = 0)
           THEN ~vout.ret /\ vout.var_binds = varg.var_binds
           ELSE /\ vout.ret
                /\ LocationBound = LocationCode(varg.url.scheme)
                /\ varg.url.scheme = "another-unit"
                     => CopyColumn(varg.offset + OFFSET_UNIT_NUMBER, varg.copy_index)
                            \in DOMAIN vout.var_binds
====
